---- MODULE Spec2Model ----
(***************************************************************************)
(* Model of the automatic graph layout of the knowledge-graph editor:      *)
(* lib/graphAutoLayout (computeAutoLayoutPositions and its engines) and    *)
(* the store operation autoLayoutFromNode that applies it.                 *)
(*                                                                         *)
(* Numbers.  The program computes with IEEE doubles.  The model computes   *)
(* with integers in fixed point:                                           *)
(*   - a coordinate or a length is an integer count of 1/PointUnit pixel;  *)
(*   - an angle is an integer count of 1/AngleUnit radian;                 *)
(*   - a compaction scale is an integer count of 1/ScaleDen.               *)
(* The layered engine only produces multiples of half a pixel, so it is    *)
(* exact in this representation; the radial engine is rounded to the grid. *)
(***************************************************************************)
EXTENDS Integers, Sequences, FiniteSets, TLC

(***************************************************************************)
(* Generic helpers for sequences and partial maps.                         *)
(***************************************************************************)
Range(s) == {s[i] : i \in 1..Len(s)}

Max2(a, b) == IF a >= b THEN a ELSE b

Min2(a, b) == IF a <= b THEN a ELSE b

Abs(a) == IF a < 0 THEN -a ELSE a

\* Map.set(k, v) on a map represented as a function
MapSet(m, k, v) == [q \in (DOMAIN m) \cup {k} |-> IF q = k THEN v ELSE m[q]]

EmptyMap == [q \in {} |-> 0]

\* Array.prototype.filter keeping the members of a set
FilterIn(s, S) == SelectSeq(s, LAMBDA e : e \in S)

\* first index of x in s, 0 when absent
RECURSIVE IndexFrom(_, _, _)
IndexFrom(s, x, i) ==
  IF i > Len(s) THEN 0
  ELSE IF s[i] = x THEN i
  ELSE IndexFrom(s, x, i + 1)

IndexOf(s, x) == IndexFrom(s, x, 1)

(***************************************************************************)
(* Number representation.                                                  *)
(***************************************************************************)
\* units per pixel of every Point coordinate
PointUnit == 8

\* units per radian of every angle
AngleUnit == 10000

\* denominator of a compaction scale: 0.35 = 7168/20480 and the ten
\* bisection steps between 0.35 and 1 stay integral
ScaleDen == 20480

Px(n) == n * PointUnit

\* a / b rounded to the nearest integer, halves up (b > 0)
RoundDiv(a, b) == (2 * a + b) \div (2 * b)

(***************************************************************************)
(* constants/graphLayout.ts                                                *)
(***************************************************************************)
NODE_CENTER_OFFSET == [x |-> 60, y |-> 25]

(***************************************************************************)
(* graphAutoLayout: options                                                *)
(***************************************************************************)
DEFAULT_OPTIONS ==
  [layoutStyle |-> "radial",
   includeOtherComponents |-> FALSE,
   ringSpacing |-> 140,
   nodeSpacing |-> 140,
   componentGap |-> 320,
   columnMaxHeight |-> 1200,
   xScale |-> 1,
   yScale |-> 1,
   maxAttempts |-> 12]

(***************************************************************************)
(* graphAutoLayout: overlap test and compaction                            *)
(***************************************************************************)
getNodeHalfSizeWithPadding(padding) ==
  [halfWidth |-> NODE_CENTER_OFFSET.x + padding,
   halfHeight |-> NODE_CENTER_OFFSET.y + padding]

\* variant: boxes that only touch count as overlapping
boxesOverlapOrTouch(a, b, halfWidth, halfHeight) ==
  /\ Abs(a.x - b.x) <= halfWidth * 2
  /\ Abs(a.y - b.y) <= halfHeight * 2

\* a, b: points in any common unit; halfWidth, halfHeight in the same unit
boxesOverlap(a, b, halfWidth, halfHeight) ==
  /\ Abs(a.x - b.x) < halfWidth * 2
  /\ Abs(a.y - b.y) < halfHeight * 2

\* One iteration of the loop over ids: the cells the node covers, the
\* test against the buckets of these cells, then the insertion.
\* grid is the set of [cx, cy, id] bucket entries; scaled positions are
\* kept in units of 1/(PointUnit * ScaleDen) pixel, which is exact.
RECURSIVE OverlapScan(_, _, _, _, _, _)
OverlapScan(centers, ids, k, scale, padding, grid) ==
  IF k > Len(ids) THEN FALSE
  ELSE IF ids[k] \notin DOMAIN centers
    THEN OverlapScan(centers, ids, k + 1, scale, padding, grid)
  ELSE
    LET id == ids[k]
        half == getNodeHalfSizeWithPadding(padding)
        halfWidth == half.halfWidth * PointUnit * ScaleDen
        halfHeight == half.halfHeight * PointUnit * ScaleDen
        cellSize == Max2(halfWidth * 2, halfHeight * 2)
        pos == [x |-> centers[id].x * scale, y |-> centers[id].y * scale]
        scaledOf(o) == [x |-> centers[o].x * scale, y |-> centers[o].y * scale]
        minCellX == (pos.x - halfWidth) \div cellSize
        maxCellX == (pos.x + halfWidth) \div cellSize
        minCellY == (pos.y - halfHeight) \div cellSize
        maxCellY == (pos.y + halfHeight) \div cellSize
        cells == (minCellX..maxCellX) \X (minCellY..maxCellY)
        hit == \E g \in grid :
                 /\ <<g.cx, g.cy>> \in cells
                 /\ boxesOverlap(pos, scaledOf(g.id), halfWidth, halfHeight)
    IN IF hit THEN TRUE
       ELSE OverlapScan(centers, ids, k + 1, scale, padding,
              grid \cup {[cx |-> c[1], cy |-> c[2], id |-> id] : c \in cells})

\* scale is a numerator over ScaleDen
hasAnyNodeOverlap(centers, ids, scale, padding) ==
  OverlapScan(centers, ids, 1, scale, padding, {})

\* centers multiplied by scale/ScaleDen, for the listed ids that have a center
ScaleCenters(centers, ids, scale) ==
  [id \in Range(ids) \cap DOMAIN centers |->
     [x |-> RoundDiv(centers[id].x * scale, ScaleDen),
      y |-> RoundDiv(centers[id].y * scale, ScaleDen)]]

\* variant: the halves are taken the other way round
RECURSIVE BisectSwapped(_, _, _, _, _, _)
BisectSwapped(centers, ids, padding, low, high, iter) ==
  IF iter >= 10 THEN high
  ELSE LET mid == (low + high) \div 2
       IN IF hasAnyNodeOverlap(centers, ids, mid, padding)
          THEN BisectSwapped(centers, ids, padding, low, mid, iter + 1)
          ELSE BisectSwapped(centers, ids, padding, mid, high, iter + 1)

RECURSIVE Bisect(_, _, _, _, _, _)
Bisect(centers, ids, padding, low, high, iter) ==
  IF iter >= 10 THEN high
  ELSE LET mid == (low + high) \div 2
       IN IF hasAnyNodeOverlap(centers, ids, mid, padding)
          THEN Bisect(centers, ids, padding, mid, high, iter + 1)
          ELSE Bisect(centers, ids, padding, low, mid, iter + 1)

\* minScale is a numerator over ScaleDen
\* variant: minScale as it is given
GivenMinScale(minScale) == minScale

\* Math.max(0.1, Math.min(1, minScale))
SafeMinScale(minScale) == Max2(ScaleDen \div 10, Min2(ScaleDen, minScale))

compressCentersIfPossible(centers, ids, minScale, padding) ==
  LET safeMinScale == SafeMinScale(minScale)
  IN IF ~hasAnyNodeOverlap(centers, ids, safeMinScale, padding)
     THEN [centers |-> ScaleCenters(centers, ids, safeMinScale), scale |-> safeMinScale]
     ELSE LET high == Bisect(centers, ids, padding, safeMinScale, ScaleDen, 0)
          IN [centers |-> ScaleCenters(centers, ids, high), scale |-> high]

(***************************************************************************)
(* graphAutoLayout: adjacency and components                               *)
(***************************************************************************)
RECURSIVE AdjacencyFrom(_, _, _, _)
AdjacencyFrom(nodeIds, edgeList, k, adjacency) ==
  IF k > Len(edgeList) THEN adjacency
  ELSE LET e == edgeList[k]
       IN IF e.source \notin nodeIds \/ e.target \notin nodeIds
          THEN AdjacencyFrom(nodeIds, edgeList, k + 1, adjacency)
          ELSE LET a1 == [adjacency EXCEPT ![e.source] = Append(@, e.target)]
                   a2 == [a1 EXCEPT ![e.target] = Append(@, e.source)]
               IN AdjacencyFrom(nodeIds, edgeList, k + 1, a2)

\* variant: an edge is followed from its source only
buildDirectedAdjacency(nodeIds, edgeList) ==
  [id \in nodeIds |->
     LET out == SelectSeq(edgeList, LAMBDA e : e.source = id /\ e.target \in nodeIds)
     IN [k \in 1..Len(out) |-> out[k].target]]

\* variant: an edge with one endpoint among the nodes still enters the list
\* of that endpoint
RECURSIVE HalfOpenAdjacencyFrom(_, _, _, _)
HalfOpenAdjacencyFrom(nodeIds, edgeList, k, adjacency) ==
  IF k > Len(edgeList) THEN adjacency
  ELSE LET e == edgeList[k]
           a1 == IF e.source \in nodeIds
                 THEN [adjacency EXCEPT ![e.source] = Append(@, e.target)]
                 ELSE adjacency
           a2 == IF e.target \in nodeIds
                 THEN [a1 EXCEPT ![e.target] = Append(@, e.source)]
                 ELSE a1
       IN HalfOpenAdjacencyFrom(nodeIds, edgeList, k + 1, a2)

buildHalfOpenAdjacency(nodeIds, edgeList) ==
  HalfOpenAdjacencyFrom(nodeIds, edgeList, 1, [id \in nodeIds |-> <<>>])

buildUndirectedAdjacency(nodeIds, edgeList) ==
  AdjacencyFrom(nodeIds, edgeList, 1, [id \in nodeIds |-> <<>>])

\* adjacency.get(id) || []
Neighbors(adjacency, id) == IF id \in DOMAIN adjacency THEN adjacency[id] ELSE <<>>

\* neighbors.forEach: push the unvisited ones
RECURSIVE VisitNeighbors(_, _, _)
VisitNeighbors(neighbors, k, queue) ==
  IF k > Len(neighbors) THEN queue
  ELSE IF neighbors[k] \in Range(queue)
    THEN VisitNeighbors(neighbors, k + 1, queue)
    ELSE VisitNeighbors(neighbors, k + 1, Append(queue, neighbors[k]))

\* the while loop of a breadth-first search; every visited id is in queue
RECURSIVE BfsQueue(_, _, _)
BfsQueue(adjacency, queue, head) ==
  IF head > Len(queue) THEN queue
  ELSE BfsQueue(adjacency,
                VisitNeighbors(Neighbors(adjacency, queue[head]), 1, queue),
                head + 1)

computeComponentIdSetFromRoot(rootId, adjacency) ==
  Range(BfsQueue(adjacency, <<rootId>>, 1))

RECURSIVE ComponentsFrom(_, _, _, _, _)
ComponentsFrom(nodeIds, adjacency, k, visited, components) ==
  IF k > Len(nodeIds) THEN components
  ELSE IF nodeIds[k] \in visited
    THEN ComponentsFrom(nodeIds, adjacency, k + 1, visited, components)
    ELSE LET component == BfsQueue(adjacency, <<nodeIds[k]>>, 1)
         IN ComponentsFrom(nodeIds, adjacency, k + 1,
                           visited \cup Range(component),
                           Append(components, component))

computeConnectedComponents(nodeIds, adjacency) ==
  ComponentsFrom(nodeIds, adjacency, 1, {}, <<>>)

\* variant: the padding is left out of the bounds
computeBoundsWithoutPadding(centers, ids, padding) ==
  LET halfWidth == Px(NODE_CENTER_OFFSET.x)
      halfHeight == Px(NODE_CENTER_OFFSET.y)
      have == Range(ids) \cap DOMAIN centers
      xs == {centers[id].x : id \in have}
      ys == {centers[id].y : id \in have}
      lo(S) == CHOOSE v \in S : \A w \in S : v <= w
      hi(S) == CHOOSE v \in S : \A w \in S : v >= w
  IN IF have = {}
     THEN [minX |-> 0, maxX |-> 0, minY |-> 0, maxY |-> 0, width |-> 0, height |-> 0]
     ELSE [minX |-> lo(xs) - halfWidth, maxX |-> hi(xs) + halfWidth,
           minY |-> lo(ys) - halfHeight, maxY |-> hi(ys) + halfHeight,
           width |-> hi(xs) - lo(xs) + 2 * halfWidth,
           height |-> hi(ys) - lo(ys) + 2 * halfHeight]

\* bounds of the node boxes around the given centers (units of Point)
computeBoundsFromCenters(centers, ids, padding) ==
  LET halfWidth == Px(NODE_CENTER_OFFSET.x)
      halfHeight == Px(NODE_CENTER_OFFSET.y)
      have == Range(ids) \cap DOMAIN centers
      xs == {centers[id].x : id \in have}
      ys == {centers[id].y : id \in have}
      lo(S) == CHOOSE v \in S : \A w \in S : v <= w
      hi(S) == CHOOSE v \in S : \A w \in S : v >= w
  IN IF have = {}
     THEN [minX |-> 0, maxX |-> 0, minY |-> 0, maxY |-> 0, width |-> 0, height |-> 0]
     ELSE LET minX == lo(xs) - halfWidth - Px(padding)
              maxX == hi(xs) + halfWidth + Px(padding)
              minY == lo(ys) - halfHeight - Px(padding)
              maxY == hi(ys) + halfHeight + Px(padding)
          IN [minX |-> minX, maxX |-> maxX, minY |-> minY, maxY |-> maxY,
              width |-> maxX - minX, height |-> maxY - minY]

(***************************************************************************)
(* graphAutoLayout: geometry and crossing counters                         *)
(***************************************************************************)
cross(o, a, b) == (a.x - o.x) * (b.y - o.y) - (a.y - o.y) * (b.x - o.x)

\* EPS = 1e-9 square pixels is below one unit of the integer cross product,
\* so |v| < EPS is v = 0
orientation(a, b, c) ==
  LET v == cross(a, b, c)
  IN IF v = 0 THEN 0 ELSE IF v > 0 THEN 1 ELSE -1

\* variant: a segment that only touches the other counts as crossing it
segmentsTouchOrCross(p1, q1, p2, q2) ==
  LET o1 == orientation(p1, q1, p2)
      o2 == orientation(p1, q1, q2)
      o3 == orientation(p2, q2, p1)
      o4 == orientation(p2, q2, q1)
  IN o1 * o2 <= 0 /\ o3 * o4 <= 0

segmentsProperlyCross(p1, q1, p2, q2) ==
  LET o1 == orientation(p1, q1, p2)
      o2 == orientation(p1, q1, q2)
      o3 == orientation(p2, q2, p1)
      o4 == orientation(p2, q2, q1)
  IN o1 * o2 < 0 /\ o3 * o4 < 0

edgesShareEndpoint(a, b) ==
  \/ a.source = b.source
  \/ a.source = b.target
  \/ a.target = b.source
  \/ a.target = b.target

\* edges.filter((e) => set.has(e.source) && set.has(e.target))
EdgesWithin(edgeList, idSet) ==
  SelectSeq(edgeList, LAMBDA e : e.source \in idSet /\ e.target \in idSet)

\* the body of the two nested loops for the pair (i, j) of edge indices
PairCrosses(edgeList, centers, i, j) ==
  LET a == edgeList[i]
      b == edgeList[j]
  IN /\ a.source \in DOMAIN centers /\ a.target \in DOMAIN centers
     /\ ~edgesShareEndpoint(a, b)
     /\ b.source \in DOMAIN centers /\ b.target \in DOMAIN centers
     /\ segmentsProperlyCross(centers[a.source], centers[a.target],
                              centers[b.source], centers[b.target])

countEdgeCrossings(centers, edgeList, nodeIdSet) ==
  LET componentEdges == EdgesWithin(edgeList, nodeIdSet)
      n == Len(componentEdges)
  IN Cardinality({p \in (1..n) \X (1..n) :
                    p[1] < p[2] /\ PairCrosses(componentEdges, centers, p[1], p[2])})

buildIncidentEdgeIndexMap(edgeList) ==
  LET ends == {edgeList[k].source : k \in 1..Len(edgeList)}
                \cup {edgeList[k].target : k \in 1..Len(edgeList)}
      \* forEach pushes index k for the source, then again for the target
      entries(id, k) ==
        (IF edgeList[k].source = id THEN <<k>> ELSE <<>>)
          \o (IF edgeList[k].target = id THEN <<k>> ELSE <<>>)
      RECURSIVE listOf(_, _)
      listOf(id, k) ==
        IF k > Len(edgeList) THEN <<>> ELSE entries(id, k) \o listOf(id, k + 1)
  IN [id \in ends |-> listOf(id, 1)]

\* variant: the slots start at 0 instead of being centered on 0
getLevelYFromTop(index, count, spacingY) == index * spacingY

\* (index - (count - 1) / 2) * spacingY, spacingY in units of Point
getLevelY(index, count, spacingY) == ((2 * index - (count - 1)) * spacingY) \div 2

\* affectedEdgeIndices: sequence of edge indices (1-based), isAffected: their set
\* variant: the first loop does not skip the marked edges
countCrossingsMarkedAgainstAll(edgeList, centers, affectedEdgeIndices, isAffected) ==
  LET crossPair(i, j) ==
        LET a == edgeList[i]
            b == edgeList[j]
        IN /\ a.source \in DOMAIN centers /\ a.target \in DOMAIN centers
           /\ ~edgesShareEndpoint(a, b)
           /\ b.source \in DOMAIN centers /\ b.target \in DOMAIN centers
           /\ segmentsProperlyCross(centers[a.source], centers[a.target],
                                    centers[b.source], centers[b.target])
  IN Cardinality({p \in (1..Len(affectedEdgeIndices)) \X (1..Len(edgeList)) :
                    crossPair(affectedEdgeIndices[p[1]], p[2])})

countCrossingsInvolvingMarkedEdgeIndices(edgeList, centers, affectedEdgeIndices, isAffected) ==
  IF Len(affectedEdgeIndices) = 0 THEN 0
  ELSE
    LET n == Len(edgeList)
        m == Len(affectedEdgeIndices)
        crossPair(i, j) ==
          LET a == edgeList[i]
              b == edgeList[j]
          IN /\ a.source \in DOMAIN centers /\ a.target \in DOMAIN centers
             /\ ~edgesShareEndpoint(a, b)
             /\ b.source \in DOMAIN centers /\ b.target \in DOMAIN centers
             /\ segmentsProperlyCross(centers[a.source], centers[a.target],
                                      centers[b.source], centers[b.target])
        \* affected vs unaffected
        outer == {p \in (1..m) \X (1..n) :
                    /\ p[2] \notin isAffected
                    /\ crossPair(affectedEdgeIndices[p[1]], p[2])}
        \* affected vs affected (i < j)
        inner == {p \in (1..m) \X (1..m) :
                    /\ p[1] < p[2]
                    /\ crossPair(affectedEdgeIndices[p[1]], affectedEdgeIndices[p[2]])}
    IN Cardinality(outer) + Cardinality(inner)

RECURSIVE ChooseCenterFrom(_, _, _, _, _)
ChooseCenterFrom(componentIds, adjacency, orderIndex, k, best) ==
  IF k > Len(componentIds) THEN best.id
  ELSE LET id == componentIds[k]
           degree == Len(Neighbors(adjacency, id))
           known == id \in DOMAIN orderIndex
       IN IF degree > best.degree
          THEN ChooseCenterFrom(componentIds, adjacency, orderIndex, k + 1,
                 [id |-> id, degree |-> degree, inf |-> ~known,
                  order |-> IF known THEN orderIndex[id] ELSE 0])
          ELSE IF degree = best.degree
                  /\ known /\ (best.inf \/ orderIndex[id] < best.order)
          THEN ChooseCenterFrom(componentIds, adjacency, orderIndex, k + 1,
                 [best EXCEPT !.id = id, !.inf = FALSE, !.order = orderIndex[id]])
          ELSE ChooseCenterFrom(componentIds, adjacency, orderIndex, k + 1, best)

\* bestOrder starts at +Infinity (inf), bestDegree at -1
chooseComponentCenterId(componentIds, adjacency, orderIndex) ==
  ChooseCenterFrom(componentIds, adjacency, orderIndex, 1,
                   [id |-> componentIds[1], degree |-> -1, inf |-> TRUE, order |-> 0])

(***************************************************************************)
(* Sorting: Array.prototype.sort is stable; every comparator of the        *)
(* module compares (missing barycenter last, value, orderIndex).  A key is *)
(* [null, num, den, ord]: value num/den (den > 0), ignored when null.      *)
(***************************************************************************)
\* comparator(a, b) < 0
KeyLess(ka, kb) ==
  IF ka.null /\ kb.null THEN ka.ord < kb.ord
  ELSE IF ka.null THEN FALSE
  ELSE IF kb.null THEN TRUE
  ELSE IF ka.num * kb.den # kb.num * ka.den THEN ka.num * kb.den < kb.num * ka.den
  ELSE ka.ord < kb.ord

\* x goes before the first element that compares greater than x
RECURSIVE InsertByKey(_, _, _, _)
InsertByKey(sorted, x, key, k) ==
  IF k > Len(sorted) THEN Append(sorted, x)
  ELSE IF KeyLess(key[x], key[sorted[k]])
    THEN SubSeq(sorted, 1, k - 1) \o <<x>> \o SubSeq(sorted, k, Len(sorted))
    ELSE InsertByKey(sorted, x, key, k + 1)

RECURSIVE SortFrom(_, _, _, _)
SortFrom(s, key, k, sorted) ==
  IF k > Len(s) THEN sorted
  ELSE SortFrom(s, key, k + 1, InsertByKey(sorted, s[k], key, 1))

SortByKey(s, key) == SortFrom(s, key, 1, <<>>)

\* orderIndex.get(id) ?? 0
OrderOf(orderIndex, id) == IF id \in DOMAIN orderIndex THEN orderIndex[id] ELSE 0

SortByOrderIndex(s, orderIndex) ==
  SortByKey(s, [id \in Range(s) |->
                  [null |-> FALSE, num |-> 0, den |-> 1, ord |-> OrderOf(orderIndex, id)]])

(***************************************************************************)
(* Breadth-first search of the two engines: shortest distance and the      *)
(* parent of the spanning tree (the first discoverer).                     *)
(***************************************************************************)
RECURSIVE DiscoverNeighbors(_, _, _, _, _)
DiscoverNeighbors(neighbors, k, currentId, componentSet, st) ==
  IF k > Len(neighbors) THEN st
  ELSE LET neighborId == neighbors[k]
       IN IF neighborId \notin componentSet \/ neighborId \in DOMAIN st.distanceMap
          THEN DiscoverNeighbors(neighbors, k + 1, currentId, componentSet, st)
          ELSE DiscoverNeighbors(neighbors, k + 1, currentId, componentSet,
                 [queue |-> Append(st.queue, neighborId),
                  distanceMap |-> MapSet(st.distanceMap, neighborId,
                                         st.distanceMap[currentId] + 1),
                  parentMap |-> MapSet(st.parentMap, neighborId, currentId)])

RECURSIVE DistanceLoop(_, _, _, _)
DistanceLoop(adjacency, componentSet, st, head) ==
  IF head > Len(st.queue) THEN st
  ELSE LET currentId == st.queue[head]
       IN DistanceLoop(adjacency, componentSet,
            DiscoverNeighbors(Neighbors(adjacency, currentId), 1, currentId, componentSet, st),
            head + 1)

\* parentMap holds no entry for the center (its parent is null)
DistanceBfs(centerId, adjacency, componentSet) ==
  DistanceLoop(adjacency, componentSet,
               [queue |-> <<centerId>>,
                distanceMap |-> MapSet(EmptyMap, centerId, 0),
                parentMap |-> EmptyMap],
               1)

\* Math.max(0, ...values)
MaxOf(S) == IF S = {} THEN 0 ELSE Max2(0, CHOOSE v \in S : \A w \in S : v >= w)

(***************************************************************************)
(* graphAutoLayout: layered engine (computeLayeredCentersForComponent)     *)
(***************************************************************************)
\* ids.reverse() when the seed is odd, then rotate left by seed % length
PerturbOrder(ids, seed) ==
  IF Len(ids) <= 1 THEN ids
  ELSE LET n == Len(ids)
           rev == IF seed % 2 = 1 THEN [k \in 1..n |-> ids[n + 1 - k]] ELSE ids
           offset == seed % n
       IN IF offset # 0
          THEN SubSeq(rev, offset + 1, n) \o SubSeq(rev, 1, offset)
          ELSE rev

\* levels grouped by distance in the order of componentIds, then sorted by
\* orderIndex and perturbed by the seed
InitialLevels(componentIds, distanceMap, orderIndex, seed) ==
  LET known == SelectSeq(componentIds, LAMBDA id : id \in DOMAIN distanceMap)
      maxDistance == MaxOf({distanceMap[id] : id \in Range(known)})
  IN [distance \in 0..maxDistance |->
        PerturbOrder(
          SortByOrderIndex(SelectSeq(known, LAMBDA id : distanceMap[id] = distance),
                           orderIndex),
          seed)]

\* variant: no neighbour is found in the neighbouring level
computeBarycenterNone(nodeId, neighborDistance, neighborLevel, adjacency, distanceMap) ==
  [sum |-> 0, count |-> 0]

\* sum and count of the 0-based indices of the neighbours that lie in the
\* neighbouring level; count = 0 stands for null
computeBarycenter(nodeId, neighborDistance, neighborLevel, adjacency, distanceMap) ==
  LET neighbors == Neighbors(adjacency, nodeId)
      used == {k \in 1..Len(neighbors) :
                 /\ neighbors[k] \in DOMAIN distanceMap
                 /\ distanceMap[neighbors[k]] = neighborDistance
                 /\ IndexOf(neighborLevel, neighbors[k]) # 0}
      RECURSIVE sumOver(_)
      sumOver(k) ==
        IF k > Len(neighbors) THEN 0
        ELSE (IF k \in used THEN IndexOf(neighborLevel, neighbors[k]) - 1 ELSE 0)
               + sumOver(k + 1)
  IN [sum |-> sumOver(1), count |-> Cardinality(used)]

\* current.sort(...) of one sweep step
SortLevelByBarycenter(current, neighborDistance, neighborLevel, adjacency, distanceMap, orderIndex) ==
  SortByKey(current,
    [id \in Range(current) |->
       LET b == computeBarycenter(id, neighborDistance, neighborLevel, adjacency, distanceMap)
       IN [null |-> b.count = 0,
           num |-> b.sum,
           den |-> IF b.count = 0 THEN 1 ELSE b.count,
           ord |-> OrderOf(orderIndex, id)]])

RECURSIVE ForwardSweep(_, _, _, _, _, _)
ForwardSweep(levels, distance, maxDistance, adjacency, distanceMap, orderIndex) ==
  IF distance > maxDistance THEN levels
  ELSE IF Len(levels[distance]) <= 1
    THEN ForwardSweep(levels, distance + 1, maxDistance, adjacency, distanceMap, orderIndex)
    ELSE ForwardSweep(
           [levels EXCEPT ![distance] =
              SortLevelByBarycenter(@, distance - 1, levels[distance - 1],
                                    adjacency, distanceMap, orderIndex)],
           distance + 1, maxDistance, adjacency, distanceMap, orderIndex)

RECURSIVE BackwardSweep(_, _, _, _, _)
BackwardSweep(levels, distance, adjacency, distanceMap, orderIndex) ==
  IF distance < 0 THEN levels
  ELSE IF Len(levels[distance]) <= 1
    THEN BackwardSweep(levels, distance - 1, adjacency, distanceMap, orderIndex)
    ELSE BackwardSweep(
           [levels EXCEPT ![distance] =
              SortLevelByBarycenter(@, distance + 1, levels[distance + 1],
                                    adjacency, distanceMap, orderIndex)],
           distance - 1, adjacency, distanceMap, orderIndex)

\* number of barycenter iterations (forward sweep, then backward sweep)
BarycenterIterations == 8

RECURSIVE BarycenterLoop(_, _, _, _, _, _)
BarycenterLoop(levels, iter, maxDistance, adjacency, distanceMap, orderIndex) ==
  IF iter >= BarycenterIterations THEN levels
  ELSE BarycenterLoop(
         BackwardSweep(
           ForwardSweep(levels, 1, maxDistance, adjacency, distanceMap, orderIndex),
           maxDistance - 1, adjacency, distanceMap, orderIndex),
         iter + 1, maxDistance, adjacency, distanceMap, orderIndex)

\* x of a level and the slot spacing, in units of Point
LevelX(options, distance) == Px(options.ringSpacing * distance * options.xScale)

SpacingY(options) == Px(options.nodeSpacing * options.yScale)

\* centers of the current order of the levels
LevelCenters(levels, options, centerId) ==
  LET placed == UNION {Range(levels[d]) : d \in DOMAIN levels}
      levelOf(id) == CHOOSE d \in DOMAIN levels : id \in Range(levels[d])
      c == [id \in placed |->
              LET d == levelOf(id)
              IN [x |-> LevelX(options, d),
                  y |-> getLevelY(IndexOf(levels[d], id) - 1, Len(levels[d]),
                                  SpacingY(options))]]
  IN IF centerId \in placed THEN c ELSE MapSet(c, centerId, [x |-> 0, y |-> 0])

\* The engine up to the local search: breadth-first levels, seed
\* perturbation, barycenter sweeps, coordinates and the full crossing count.
LayeredStart(componentIds, centerId, adjacency, orderIndex, edgeList, options, seed) ==
  LET componentSet == Range(componentIds)
      componentEdges == EdgesWithin(edgeList, componentSet)
      distanceMap == DistanceBfs(centerId, adjacency, componentSet).distanceMap
      initial == InitialLevels(componentIds, distanceMap, orderIndex, seed)
      maxDistance == MaxOf(DOMAIN initial)
      orderedLevels == BarycenterLoop(initial, 0, maxDistance, adjacency, distanceMap, orderIndex)
      centers == LevelCenters(orderedLevels, options, centerId)
      crossings == IF Len(componentEdges) > 1
                   THEN countEdgeCrossings(centers, componentEdges, componentSet)
                   ELSE 0
  IN [componentEdges |-> componentEdges,
      initialLevels |-> initial,
      orderedLevels |-> orderedLevels,
      maxDistance |-> maxDistance,
      centers |-> centers,
      crossings |-> crossings]

MaxPasses(componentIds) ==
  Min2(24, Max2(6, (Len(componentIds) + 9) \div 10))

MaxSwaps(componentIds) == Min2(2000, Len(componentIds) * 40)

\* variant: a pass without an accepted swap does not end the search
PassEndsOnBudget(improvedInPass, swaps, maxSwaps) == swaps >= maxSwaps

\* if (!improvedInPass) break; if (swaps >= maxSwaps) break;
PassEnds(improvedInPass, swaps, maxSwaps) == ~improvedInPass \/ swaps >= maxSwaps

\* The loop headers of the local search, from the cursor (pass, distance,
\* i) of state s: the state at the next swap trial, or with done = TRUE
\* when the loops have ended.  i is 0-based as in the code.
RECURSIVE SeekTrial(_, _)
SeekTrial(s, componentIds) ==
  LET incident == buildIncidentEdgeIndexMap(s.componentEdges)
      inc(id) == IF id \in DOMAIN incident THEN incident[id] ELSE <<>>
      endPass ==
        IF PassEnds(s.improvedInPass, s.swaps, MaxSwaps(componentIds))
        THEN [s EXCEPT !.done = TRUE]
        ELSE SeekTrial([s EXCEPT !.pass = @ + 1, !.distance = 0, !.i = 0,
                                 !.improvedInPass = FALSE], componentIds)
      nextLevel == SeekTrial([s EXCEPT !.distance = @ + 1, !.i = 0], componentIds)
  IN IF ~(s.pass < MaxPasses(componentIds) /\ s.crossings > 0)
       THEN [s EXCEPT !.done = TRUE]
     ELSE IF ~(s.distance <= s.maxDistance /\ s.crossings > 0) THEN endPass
     ELSE IF Len(s.orderedLevels[s.distance]) <= 1 THEN nextLevel
     ELSE IF ~(s.i < Len(s.orderedLevels[s.distance]) - 1 /\ s.crossings > 0) THEN nextLevel
     ELSE IF s.swaps >= MaxSwaps(componentIds) THEN nextLevel
     ELSE IF /\ Len(inc(s.orderedLevels[s.distance][s.i + 1])) = 0
             /\ Len(inc(s.orderedLevels[s.distance][s.i + 2])) = 0
       THEN SeekTrial([s EXCEPT !.i = @ + 1], componentIds)
     ELSE s

\* isAffected marks and affectedIndices of a trial: the incident edges of
\* a, then those of b, each index once
RECURSIVE Dedup(_, _, _)
Dedup(s, k, acc) ==
  IF k > Len(s) THEN acc
  ELSE IF s[k] \in Range(acc) THEN Dedup(s, k + 1, acc)
  ELSE Dedup(s, k + 1, Append(acc, s[k]))

AffectedIndices(componentEdges, aId, bId) ==
  LET incident == buildIncidentEdgeIndexMap(componentEdges)
      inc(id) == IF id \in DOMAIN incident THEN incident[id] ELSE <<>>
  IN Dedup(inc(aId) \o inc(bId), 1, <<>>)

\* variant: every swap is kept
KeepSwapAlways(before, after) == TRUE

\* a swap is kept when it lowers the count over the affected edges
KeepSwap(before, after) == after < before

\* One swap trial at the cursor of s (the body of the innermost loop):
\* count, swap, count again, keep or roll back; the cursor moves to i + 1.
SwapTrial(s, options) ==
  LET ids == s.orderedLevels[s.distance]
      i == s.i
      aId == ids[i + 1]
      bId == ids[i + 2]
      count == Len(ids)
      x == LevelX(options, s.distance)
      affected == AffectedIndices(s.componentEdges, aId, bId)
      before == countCrossingsInvolvingMarkedEdgeIndices(
                  s.componentEdges, s.centers, affected, Range(affected))
      yA == getLevelY(i, count, SpacingY(options))
      yB == getLevelY(i + 1, count, SpacingY(options))
      swappedCenters == [s.centers EXCEPT ![aId] = [x |-> x, y |-> yB],
                                          ![bId] = [x |-> x, y |-> yA]]
      after == countCrossingsInvolvingMarkedEdgeIndices(
                 s.componentEdges, swappedCenters, affected, Range(affected))
  IN IF KeepSwap(before, after)
     THEN [s EXCEPT !.orderedLevels[s.distance] = [ids EXCEPT ![i + 1] = bId, ![i + 2] = aId],
                    !.centers = swappedCenters,
                    !.crossings = @ + after - before,
                    !.improvedInPass = TRUE,
                    !.swaps = @ + 1,
                    !.i = @ + 1]
     ELSE [s EXCEPT !.centers = [s.centers EXCEPT ![aId] = [x |-> x, y |-> yA],
                                                  ![bId] = [x |-> x, y |-> yB]],
                    !.swaps = @ + 1,
                    !.i = @ + 1]

\* the engine state when the local search is entered (or skipped);
\* baryCrossings keeps the count of the barycenter order for the properties
LayeredEnter(componentIds, centerId, adjacency, orderIndex, edgeList, options, seed) ==
  LET start == LayeredStart(componentIds, centerId, adjacency, orderIndex, edgeList, options, seed)
      s0 == [componentEdges |-> start.componentEdges,
             orderedLevels |-> start.orderedLevels,
             maxDistance |-> start.maxDistance,
             centers |-> start.centers,
             crossings |-> start.crossings,
             baryCrossings |-> start.crossings,
             pass |-> 0, distance |-> 0, i |-> 0,
             improvedInPass |-> FALSE, swaps |-> 0, done |-> FALSE]
  IN IF start.crossings > 0 /\ Len(start.componentEdges) > 1
     THEN SeekTrial(s0, componentIds)
     ELSE [s0 EXCEPT !.done = TRUE]

\* the whole local search, run to its end
RECURSIVE LocalSearch(_, _, _)
LocalSearch(s, componentIds, options) ==
  IF s.done THEN s
  ELSE LocalSearch(SeekTrial(SwapTrial(s, options), componentIds), componentIds, options)

computeLayeredCentersForComponent(componentIds, centerId, adjacency, orderIndex, edgeList, options, seed) ==
  LET s == LocalSearch(
             LayeredEnter(componentIds, centerId, adjacency, orderIndex, edgeList, options, seed),
             componentIds, options)
  IN [centers |-> s.centers, crossings |-> s.crossings]

(***************************************************************************)
(* graphAutoLayout: radial engine (computeRadialCentersForComponent)       *)
(***************************************************************************)
\* Math.PI in units of angle
Pi == 31416

TwoPi == 2 * Pi

HalfPi == Pi \div 2

\* sin of an angle in [0, pi/2], by its Taylor series up to x^9, times AngleUnit
SinQuadrant(x) ==
  LET S == AngleUnit
      x2 == (x * x) \div S
      t4 == S - x2 \div 72
      t3 == S - (x2 * t4) \div (42 * S)
      t2 == S - (x2 * t3) \div (20 * S)
      t1 == S - (x2 * t2) \div (6 * S)
  IN (x * t1) \div S

\* Math.sin and Math.cos: the result is a count of 1/AngleUnit
Sin(angle) ==
  LET a == angle % TwoPi
  IN IF a <= HalfPi THEN SinQuadrant(a)
     ELSE IF a <= Pi THEN SinQuadrant(Pi - a)
     ELSE IF a <= Pi + HalfPi THEN -SinQuadrant(a - Pi)
     ELSE -SinQuadrant(TwoPi - a)

Cos(angle) == Sin(angle + HalfPi)

\* Math.round(Math.sqrt(size) * 0.35): the k with k - 1/2 <= 0.35 sqrt(size) < k + 1/2
RoundSqrtScaled(size) ==
  CHOOSE k \in 0..size :
    /\ k = 0 \/ (2 * k - 1) * (2 * k - 1) * 100 <= 49 * size
    /\ ~((2 * k + 1) * (2 * k + 1) * 100 <= 49 * size)

\* getRootChildGroup: the root child whose subtree holds nodeId ("" for null)
RECURSIVE getRootChildGroup(_, _, _)
getRootChildGroup(nodeId, centerId, parentMap) ==
  IF nodeId = centerId THEN ""
  ELSE IF nodeId \notin DOMAIN parentMap THEN ""
  ELSE IF parentMap[nodeId] = centerId THEN nodeId
  ELSE getRootChildGroup(parentMap[nodeId], centerId, parentMap)

\* groupDepthNodes: per root child, per depth, the ids in componentIds order
GroupDepthNodes(componentIds, centerId, rootChildren, bfs) ==
  LET maxDistance == MaxOf({bfs.distanceMap[id] : id \in DOMAIN bfs.distanceMap})
  IN [groupId \in Range(rootChildren) |->
        [depth \in 1..maxDistance |->
           SelectSeq(componentIds, LAMBDA id :
             /\ id # centerId
             /\ id \in DOMAIN bfs.distanceMap
             /\ bfs.distanceMap[id] = depth
             /\ getRootChildGroup(id, centerId, bfs.parentMap) = groupId)]]

GroupWeight(groupId, depthNodes, groupSize) ==
  LET maxLayerCount == Max2(1, MaxOf({Len(depthNodes[groupId][d]) : d \in DOMAIN depthNodes[groupId]}))
      size == Max2(1, groupSize[groupId])
  IN Max2(1, maxLayerCount + RoundSqrtScaled(size))

\* the wedges of the root children, in their order, from the start angle
RECURSIVE WedgesFrom(_, _, _, _, _, _, _)
WedgesFrom(rootChildren, k, cursorAngle, weight, totalWeight, gap, wedges) ==
  IF k > Len(rootChildren) THEN wedges
  ELSE LET groupId == rootChildren[k]
           availableAngle == TwoPi - Min2((TwoPi * 4) \div 100, (35 * AngleUnit) \div 100)
           span == RoundDiv(availableAngle * weight[groupId], totalWeight)
           margin == Min2((6 * AngleUnit) \div 100, RoundDiv(span * 8, 100))
           innerSpan == Max2(1, span - 2 * margin)
       IN WedgesFrom(rootChildren, k + 1, cursorAngle + span + gap, weight, totalWeight, gap,
            MapSet(wedges, groupId,
                   [start |-> cursorAngle, span |-> span,
                    innerStart |-> cursorAngle + margin, innerSpan |-> innerSpan]))

\* alpha in percent
BlendAlpha(depth) == IF depth <= 1 THEN 0 ELSE Max2(25, 45 - (depth - 2) * 8)

\* angles of the nodes of one group at one depth
RECURSIVE AssignAngles(_, _, _, _, _, _)
AssignAngles(ids, index, depth, wedge, parentMap, angleById) ==
  IF index >= Len(ids) THEN angleById
  ELSE LET id == ids[index + 1]
           count == Len(ids)
           alpha == BlendAlpha(depth)
           uniformAngle == wedge.innerStart
                             + RoundDiv(wedge.innerSpan * (2 * index + 1), 2 * count)
           desiredAngle == IF id \in DOMAIN parentMap /\ parentMap[id] \in DOMAIN angleById
                           THEN angleById[parentMap[id]]
                           ELSE uniformAngle
           angle == RoundDiv(uniformAngle * (100 - alpha) + desiredAngle * alpha, 100)
       IN AssignAngles(ids, index + 1, depth, wedge, parentMap, MapSet(angleById, id, angle))

\* ids.sort by the angle of the parent, then by orderIndex
SortByParentAngle(ids, parentMap, angleById, orderIndex) ==
  SortByKey(ids,
    [id \in Range(ids) |->
       [null |-> FALSE,
        num |-> IF id \in DOMAIN parentMap /\ parentMap[id] \in DOMAIN angleById
                THEN angleById[parentMap[id]] ELSE 0,
        den |-> 1,
        ord |-> OrderOf(orderIndex, id)]])

\* the loops over depth and, inside, over the root children
RECURSIVE AnglesFrom(_, _, _, _, _, _, _, _)
AnglesFrom(depth, k, maxDistance, rootChildren, depthNodes, wedges, env, angleById) ==
  IF depth > maxDistance THEN angleById
  ELSE IF k > Len(rootChildren)
    THEN AnglesFrom(depth + 1, 1, maxDistance, rootChildren, depthNodes, wedges, env, angleById)
  ELSE LET groupId == rootChildren[k]
           ids == depthNodes[groupId][depth]
       IN IF Len(ids) = 0
          THEN AnglesFrom(depth, k + 1, maxDistance, rootChildren, depthNodes, wedges, env, angleById)
          ELSE AnglesFrom(depth, k + 1, maxDistance, rootChildren, depthNodes, wedges, env,
                 AssignAngles(SortByParentAngle(ids, env.parentMap, angleById, env.orderIndex),
                              0, depth, wedges[groupId], env.parentMap, angleById))

\* variant: every ring is placed from the center, not from the ring before
RECURSIVE RadiiFromCenter(_, _, _, _, _, _, _)
RadiiFromCenter(depth, maxDistance, counts, innerSpan, options, prevRadius, radiusMap) ==
  IF depth > maxDistance THEN radiusMap
  ELSE IF counts[depth] = 0
    THEN RadiiFromCenter(depth + 1, maxDistance, counts, innerSpan, options, prevRadius, radiusMap)
  ELSE LET minRingSpacing == Px(Max2(options.ringSpacing, NODE_CENTER_OFFSET.y * 2 + 28))
           minNodeSpacing == Px(Max2(options.nodeSpacing, NODE_CENTER_OFFSET.x * 2 + 24))
           requiredRadius == IF counts[depth] > 1
                             THEN RoundDiv(minNodeSpacing * (counts[depth] - 1) * AngleUnit, innerSpan)
                             ELSE 0
           radius == Max2(minRingSpacing, requiredRadius)
       IN RadiiFromCenter(depth + 1, maxDistance, counts, innerSpan, options, radius,
                          MapSet(radiusMap, depth, radius))

\* radius per depth of one group, in units of Point
RECURSIVE RadiiFrom(_, _, _, _, _, _, _)
RadiiFrom(depth, maxDistance, counts, innerSpan, options, prevRadius, radiusMap) ==
  IF depth > maxDistance THEN radiusMap
  ELSE IF counts[depth] = 0
    THEN RadiiFrom(depth + 1, maxDistance, counts, innerSpan, options, prevRadius, radiusMap)
  ELSE LET minRingSpacing == Px(Max2(options.ringSpacing, NODE_CENTER_OFFSET.y * 2 + 28))
           minNodeSpacing == Px(Max2(options.nodeSpacing, NODE_CENTER_OFFSET.x * 2 + 24))
           baseRadius == prevRadius + minRingSpacing
           requiredRadius == IF counts[depth] > 1
                             THEN RoundDiv(minNodeSpacing * (counts[depth] - 1) * AngleUnit, innerSpan)
                             ELSE 0
           radius == Max2(baseRadius, requiredRadius)
       IN RadiiFrom(depth + 1, maxDistance, counts, innerSpan, options, radius,
                    MapSet(radiusMap, depth, radius))

\* { ...a, ...b } on records
Extend(a, b) ==
  [k \in (DOMAIN a) \cup (DOMAIN b) |-> IF k \in DOMAIN b THEN b[k] ELSE a[k]]

\* The radial attempt before compaction is computed in the order of the
\* code; each step adds its results to the record of the steps before.

\* the spanning tree: distances, parents, root children and groups
RadialTree(componentIds, centerId, orderIndex, bfs) ==
  [distanceMap |-> bfs.distanceMap,
   parentMap |-> bfs.parentMap,
   maxDistance |-> MaxOf({bfs.distanceMap[id] : id \in DOMAIN bfs.distanceMap}),
   rootChildren |-> SortByOrderIndex(
                      SelectSeq(componentIds, LAMBDA id :
                        id \in DOMAIN bfs.distanceMap /\ bfs.distanceMap[id] = 1),
                      orderIndex),
   groupOf |-> [id \in Range(componentIds) |->
                  getRootChildGroup(id, centerId, bfs.parentMap)]]

\* groupSize, groupDepthNodes and groupWeight
RadialGroups(t, componentIds, centerId) ==
  LET groupSize == [g \in Range(t.rootChildren) |->
                      Cardinality({k \in 1..Len(componentIds) :
                                     /\ componentIds[k] # centerId
                                     /\ t.groupOf[componentIds[k]] = g})]
      depthNodes == GroupDepthNodes(componentIds, centerId, t.rootChildren, t)
  IN Extend(t, [groupSize |-> groupSize,
                depthNodes |-> depthNodes,
                weight |-> [g \in Range(t.rootChildren) |->
                              GroupWeight(g, depthNodes, groupSize)]])

RECURSIVE SumWeights(_, _, _)
SumWeights(rootChildren, weight, k) ==
  IF k > Len(rootChildren) THEN 0
  ELSE weight[rootChildren[k]] + SumWeights(rootChildren, weight, k + 1)

\* totalGap, gap, baseStartAngle and the wedges
RadialWedges(t, seed) ==
  LET totalGap == Min2((TwoPi * 4) \div 100, (35 * AngleUnit) \div 100)
      gap == RoundDiv(totalGap, Len(t.rootChildren))
      baseStartAngle == -HalfPi + seed * ((37 * AngleUnit) \div 100)
      totalWeight == Max2(1, SumWeights(t.rootChildren, t.weight, 1))
  IN Extend(t, [wedges |-> WedgesFrom(t.rootChildren, 1, baseStartAngle, t.weight,
                                      totalWeight, gap, EmptyMap)])

\* angleById
RadialAngles(t, centerId, orderIndex) ==
  Extend(t, [angleById |->
               AnglesFrom(1, 1, t.maxDistance, t.rootChildren, t.depthNodes, t.wedges,
                          [parentMap |-> t.parentMap, orderIndex |-> orderIndex],
                          MapSet(EmptyMap, centerId, 0))])

\* radiusByGroupDepth
RadialRadii(t, options) ==
  Extend(t, [radiusByGroupDepth |->
               [g \in Range(t.rootChildren) |->
                  RadiiFrom(1, t.maxDistance,
                            [d \in 1..t.maxDistance |-> Len(t.depthNodes[g][d])],
                            t.wedges[g].innerSpan, options, 0, EmptyMap)]])

\* radius of a node: that of its group and depth, else depth * minRingSpacing
RadiusOf(t, id, options) ==
  IF /\ t.groupOf[id] \in DOMAIN t.radiusByGroupDepth
     /\ t.distanceMap[id] \in DOMAIN t.radiusByGroupDepth[t.groupOf[id]]
  THEN t.radiusByGroupDepth[t.groupOf[id]][t.distanceMap[id]]
  ELSE t.distanceMap[id] * Px(Max2(options.ringSpacing, NODE_CENTER_OFFSET.y * 2 + 28))

\* the final coordinates before compaction
RadialCenters(t, componentIds, centerId, options) ==
  LET placed == {id \in Range(componentIds) :
                   /\ id # centerId
                   /\ id \in DOMAIN t.distanceMap
                   /\ t.distanceMap[id] > 0
                   /\ id \in DOMAIN t.angleById}
  IN Extend(t, [centers |->
       [id \in placed \cup {centerId} |->
          IF id = centerId THEN [x |-> 0, y |-> 0]
          ELSE [x |-> RoundDiv(Cos(t.angleById[id]) * RadiusOf(t, id, options), AngleUnit)
                        * options.xScale,
                y |-> RoundDiv(Sin(t.angleById[id]) * RadiusOf(t, id, options), AngleUnit)
                        * options.yScale]]])

\* The geometry of one radial attempt before compaction: wedges, angles,
\* radii and the raw centers.  The root has at least one child.
RadialGeometry(componentIds, centerId, adjacency, orderIndex, options, seed) ==
  RadialCenters(
    RadialRadii(
      RadialAngles(
        RadialWedges(
          RadialGroups(
            RadialTree(componentIds, centerId, orderIndex,
                       DistanceBfs(centerId, adjacency, Range(componentIds))),
            componentIds, centerId),
          seed),
        centerId, orderIndex),
      options),
    componentIds, centerId, options)

\* minScale 0.35 of the compaction call, as a count of 1/ScaleDen
RadialMinScale == (35 * ScaleDen) \div 100

\* variant: the early return comes before the root is set
SinglePointLayoutUnset(centerId) == [centers |-> EmptyMap, crossings |-> 0]

\* the special case of a root without children: only the root, at the origin
SinglePointLayout(centerId) ==
  [centers |-> MapSet(EmptyMap, centerId, [x |-> 0, y |-> 0]), crossings |-> 0]

\* compaction and crossing count of the raw centers
RadialFinish(geometry, componentIds, centerId, componentEdges) ==
  LET compress == compressCentersIfPossible(
                    geometry.centers,
                    <<centerId>> \o SelectSeq(componentIds, LAMBDA id : id # centerId),
                    RadialMinScale, 10)
  IN [centers |-> compress.centers,
      crossings |-> IF Len(componentEdges) > 1
                    THEN countEdgeCrossings(compress.centers, componentEdges, Range(componentIds))
                    ELSE 0,
      scale |-> compress.scale,
      wedges |-> geometry.wedges,
      radiusByGroupDepth |-> geometry.radiusByGroupDepth,
      rawCenters |-> geometry.centers]

\* One radial attempt with the locals the properties speak about: the
\* wedges built, the radii, the raw centers and the compaction scale.
RadialAttemptOf(componentIds, centerId, adjacency, orderIndex, edgeList, options, seed) ==
  LET distanceMap == DistanceBfs(centerId, adjacency, Range(componentIds)).distanceMap
      rootChildren == SelectSeq(componentIds, LAMBDA id :
                        id \in DOMAIN distanceMap /\ distanceMap[id] = 1)
  IN IF Len(rootChildren) = 0
     THEN Extend([scale |-> ScaleDen, wedges |-> EmptyMap, radiusByGroupDepth |-> EmptyMap,
                  rawCenters |-> SinglePointLayout(centerId).centers],
                 SinglePointLayout(centerId))
     ELSE RadialFinish(
            RadialGeometry(componentIds, centerId, adjacency, orderIndex, options, seed),
            componentIds, centerId, EdgesWithin(edgeList, Range(componentIds)))

computeRadialCentersForComponent(componentIds, centerId, adjacency, orderIndex, edgeList, options, seed) ==
  LET r == RadialAttemptOf(componentIds, centerId, adjacency, orderIndex, edgeList, options, seed)
  IN [centers |-> r.centers, crossings |-> r.crossings]

(***************************************************************************)
(* The store (graphStore.ts) and one call of autoLayoutFromNode, which     *)
(* runs computeAutoLayoutPositions.  The call is followed through its      *)
(* code: the attempts of computeBestCentersForComponent for the component  *)
(* of the root and then for every other component, the swap trials of the  *)
(* layered local search inside an attempt, and the placement.              *)
(***************************************************************************)
VARIABLES
  nodes,     \* store: sequence of [id, position, locked]
  edges,     \* store: sequence of [source, target]
  pc,        \* "idle", "attempt", "swap", "select", "compose", "done"
  call,      \* arguments of the running call: [rootId, options]
  frame,     \* computeBestCentersForComponent: component, seed, best so far
  eng,       \* the attempt under way: centers, crossings, local search cursor
  layouts,   \* finished components: [ids, centerId, centers, crossings]
  result,    \* what the call returned and the positions it computed
  before,    \* the store's nodes when the call began
  selection, \* store: the ids of the nodes with selected set, and selectedNodeId
  pathFocus, \* store: pathFocusNodeIds, pathFocusEdgeIds, pathFocusMode
  probe      \* a function of the layout module applied on its own: input and value

vars == <<nodes, edges, pc, call, frame, eng, layouts, result, before,
          selection, pathFocus, probe>>

\* what a call of autoLayoutFromNode leaves alone besides nodes and edges
untouched == <<selection, pathFocus, probe>>

\* selectedNodeId: null
NoSelection == [ids |-> {}, selectedNodeId |-> ""]

\* pathFocusNodeIds: [], pathFocusEdgeIds: [], pathFocusMode: null
NoPathFocus == [nodeIds |-> <<>>, edgeIds |-> <<>>, mode |-> "null"]

NoProbe == [fn |-> "none"]

\* Number.POSITIVE_INFINITY of bestCrossings
POSITIVE_INFINITY == 1000000000

\* { ...DEFAULT_OPTIONS, ...options }
MergeOptions(base, over) ==
  [k \in (DOMAIN base) \cup (DOMAIN over) |-> IF k \in DOMAIN over THEN over[k] ELSE base[k]]

\* nodes.map((n) => n.id)
NodeIdsOf(nodeList) == [k \in 1..Len(nodeList) |-> nodeList[k].id]

\* orderIndex: id -> 0-based index (a later duplicate would overwrite)
OrderIndexOf(nodeIds) ==
  [id \in Range(nodeIds) |->
     (CHOOSE k \in 1..Len(nodeIds) :
        nodeIds[k] = id /\ \A j \in (k + 1)..Len(nodeIds) : nodeIds[j] # id) - 1]

\* nodes.find((n) => n.id === rootId): its index, 0 when there is none
FindNode(nodeList, rootId) == IndexOf(NodeIdsOf(nodeList), rootId)

\* the data computeAutoLayoutPositions derives from its arguments
nodeIdsInOrder == NodeIdsOf(nodes)

orderIndex == OrderIndexOf(nodeIdsInOrder)

adjacency == buildUndirectedAdjacency(Range(nodeIdsInOrder), edges)

RootComponentIds(rootId) ==
  FilterIn(nodeIdsInOrder, computeComponentIdSetFromRoot(rootId, adjacency))

\* components.filter((ids) => !ids.includes(rootId))
OtherComponents(rootId) ==
  SelectSeq(computeConnectedComponents(nodeIdsInOrder, adjacency),
            LAMBDA ids : rootId \notin Range(ids))

\* lockedNodeIds and fixedNodeIdSet of autoLayoutFromNode, in insertion order
FixedNodeIds(nodeList, options) ==
  LET given == IF "fixedNodeIds" \in DOMAIN options THEN options.fixedNodeIds ELSE <<>>
      lockedNodeIds == NodeIdsOf(SelectSeq(nodeList, LAMBDA n : n.locked))
  IN Dedup(given \o lockedNodeIds, 1, <<>>)

NewFrame(index, componentIds, centerId) ==
  [index |-> index,
   componentIds |-> componentIds,
   centerId |-> centerId,
   seed |-> 0,
   hasBest |-> FALSE,
   bestCenters |-> EmptyMap,
   bestCrossings |-> POSITIVE_INFINITY,
   tried |-> <<>>]

NoEngine == [centers |-> EmptyMap, crossings |-> 0, done |-> TRUE]

NoResult == [ok |-> FALSE, crossings |-> 0, positions |-> EmptyMap, returned |-> FALSE]

\* variant: ok whatever the layout holds
LayoutOkAlways(positions) == TRUE

\* autoLayoutFromNode reports ok unless the layout has no position
LayoutOk(positions) == DOMAIN positions # {}

\* the value autoLayoutFromNode returns for the layout r, with r kept
CallResult(r) ==
  [ok |-> LayoutOk(r.positions), crossings |-> r.crossings,
   positions |-> r.positions, returned |-> TRUE]

\* the early return of computeAutoLayoutPositions
EmptyLayout == [positions |-> EmptyMap, crossings |-> 0]

\* autoLayoutFromNode(nodeId, options) up to the first attempt of
\* computeAutoLayoutPositions, or to its early return
AutoLayoutFromNode(nodeId, options) ==
  /\ pc = "idle"
  /\ before' = nodes
  /\ call' = [rootId |-> nodeId,
              options |-> MergeOptions(DEFAULT_OPTIONS,
                            MergeOptions(options,
                              [fixedNodeIds |-> FixedNodeIds(nodes, options)]))]
  /\ IF FindNode(nodes, nodeId) = 0 \/ Len(RootComponentIds(nodeId)) = 0
     THEN /\ result' = CallResult(EmptyLayout)
          /\ pc' = "done"
          /\ UNCHANGED frame
     ELSE /\ frame' = NewFrame(0, RootComponentIds(nodeId), nodeId)
          /\ pc' = "attempt"
          /\ UNCHANGED result
  /\ UNCHANGED <<nodes, edges, eng, layouts, untouched>>

\* one attempt of the radial engine (computeFn of the loop over seeds)
RadialAttempt ==
  /\ pc = "attempt"
  /\ call.options.layoutStyle # "layered"
  /\ eng' = Extend(RadialAttemptOf(frame.componentIds, frame.centerId,
                                   adjacency, orderIndex, edges, call.options, frame.seed),
                   [done |-> TRUE])
  /\ pc' = "select"
  /\ UNCHANGED <<nodes, edges, call, frame, layouts, result, before, untouched>>

\* one attempt of the layered engine, up to its first swap trial
LayeredAttempt ==
  /\ pc = "attempt"
  /\ call.options.layoutStyle = "layered"
  /\ eng' = LayeredEnter(frame.componentIds, frame.centerId,
                         adjacency, orderIndex, edges, call.options, frame.seed)
  /\ pc' = IF eng'.done THEN "select" ELSE "swap"
  /\ UNCHANGED <<nodes, edges, call, frame, layouts, result, before, untouched>>

\* one swap trial of the layered local search, and the loop headers up to
\* the next trial or to the end of the search
LocalSwap ==
  /\ pc = "swap"
  /\ eng' = SeekTrial(SwapTrial(eng, call.options), frame.componentIds)
  /\ pc' = IF eng'.done THEN "select" ELSE "swap"
  /\ UNCHANGED <<nodes, edges, call, frame, layouts, result, before, untouched>>

\* variant: an attempt with an equal count replaces the best
IsBetterOrEqual(crossings, bestCrossings) == crossings <= bestCrossings

\* a later attempt replaces the best only when strictly lower
IsBetter(crossings, bestCrossings) == crossings < bestCrossings

\* what computeBestCentersForComponent does with a finished attempt
\* (centers, crossings): fr is the frame after it; fr.returned when the
\* function returns, with fr.out its value
AfterAttempt(fr, centers, crossings, options) ==
  LET attempts == Max2(1, options.maxAttempts)
      logged == [fr EXCEPT !.tried = Append(@, [centers |-> centers, crossings |-> crossings])]
      better == IsBetter(crossings, fr.bestCrossings)
      kept == IF better
              THEN [logged EXCEPT !.hasBest = TRUE, !.bestCenters = centers,
                                  !.bestCrossings = crossings]
              ELSE logged
      next == [kept EXCEPT !.seed = @ + 1]
  IN IF crossings = 0
     THEN [frame |-> logged, returned |-> TRUE,
           out |-> [centers |-> centers, crossings |-> 0]]
     ELSE IF next.seed < attempts
     THEN [frame |-> next, returned |-> FALSE, out |-> [centers |-> EmptyMap, crossings |-> 0]]
     ELSE [frame |-> next, returned |-> TRUE,
           out |-> [centers |-> IF next.hasBest THEN next.bestCenters ELSE EmptyMap,
                    crossings |-> IF next.bestCrossings < POSITIVE_INFINITY
                                  THEN next.bestCrossings ELSE 0]]

\* the loop over seeds after an attempt; when the component is finished,
\* the next component to lay out (or the placement)
SelectBest ==
  /\ pc = "select"
  /\ LET a == AfterAttempt(frame, eng.centers, eng.crossings, call.options)
         others == OtherComponents(call.rootId)
         k == frame.index + 1
     IN IF ~a.returned
        THEN /\ frame' = a.frame
             /\ pc' = "attempt"
             /\ UNCHANGED layouts
        ELSE /\ layouts' = Append(layouts,
                             [ids |-> frame.componentIds, centerId |-> frame.centerId,
                              centers |-> a.out.centers, crossings |-> a.out.crossings,
                              tried |-> a.frame.tried])
             /\ IF call.options.includeOtherComponents /\ k <= Len(others)
                THEN /\ frame' = NewFrame(k, others[k],
                                   chooseComponentCenterId(others[k], adjacency, orderIndex))
                     /\ pc' = "attempt"
                ELSE /\ frame' = a.frame
                     /\ pc' = "compose"
  /\ UNCHANGED <<nodes, edges, call, eng, result, before, untouched>>

\* the column packing of the other components: the loop over componentCenters
RECURSIVE PackFrom(_, _, _, _, _, _)
PackFrom(componentCenters, i, rootBounds, options, cur, placedCenters) ==
  IF i > Len(componentCenters) THEN placedCenters
  ELSE
    LET ids == componentCenters[i].ids
        centers == componentCenters[i].centers
        relBounds == computeBoundsFromCenters(centers, ids, 80)
        columnMaxHeight == Max2(Px(options.columnMaxHeight), rootBounds.height)
        wrap == /\ cur.cursorY + relBounds.height > rootBounds.minY + columnMaxHeight
                /\ cur.cursorY # rootBounds.minY
        cursorX == IF wrap THEN cur.cursorX + cur.columnWidth + Px(options.componentGap)
                   ELSE cur.cursorX
        cursorY == IF wrap THEN rootBounds.minY ELSE cur.cursorY
        columnWidth == IF wrap THEN 0 ELSE cur.columnWidth
        offsetX == cursorX - relBounds.minX
        offsetY == cursorY - relBounds.minY
        moved == Range(ids) \cap DOMAIN centers
        placed == [id \in (DOMAIN placedCenters) \cup moved |->
                     IF id \in moved
                     THEN [x |-> centers[id].x + offsetX, y |-> centers[id].y + offsetY]
                     ELSE placedCenters[id]]
    IN PackFrom(componentCenters, i + 1, rootBounds, options,
                [cursorX |-> cursorX,
                 cursorY |-> cursorY + relBounds.height + Px(options.componentGap),
                 columnWidth |-> Max2(columnWidth, relBounds.width)],
                placed)

\* variant: the crossings of the other components are not added
SumCrossingsOfNone(componentCenters, i) == 0

RECURSIVE SumCrossings(_, _)
SumCrossings(componentCenters, i) ==
  IF i > Len(componentCenters) THEN 0
  ELSE componentCenters[i].crossings + SumCrossings(componentCenters, i + 1)

\* the anchor: the center of the root node
RootCenter(rootNode) ==
  [x |-> rootNode.position.x + Px(NODE_CENTER_OFFSET.x),
   y |-> rootNode.position.y + Px(NODE_CENTER_OFFSET.y)]

\* variant: the center is returned as the position
ToTopLeftKeepsCenter(center) == center

\* a center converted to the top-left position of the node
ToTopLeft(center) ==
  [x |-> center.x - Px(NODE_CENTER_OFFSET.x),
   y |-> center.y - Px(NODE_CENTER_OFFSET.y)]

\* placedCenters and crossings of computeAutoLayoutPositions from the
\* finished layouts: done[1] is the root's component, the rest the others
PlaceLayouts(nodeList, rootId, options, done) ==
  LET rootNode == nodeList[FindNode(nodeList, rootId)]
      rootCenter == RootCenter(rootNode)
      rootComponentIds == done[1].ids
      rootCentersRel == done[1].centers
      rootPlaced == [id \in Range(rootComponentIds) \cap DOMAIN rootCentersRel |->
                       [x |-> rootCenter.x + rootCentersRel[id].x,
                        y |-> rootCenter.y + rootCentersRel[id].y]]
      componentCenters == SubSeq(done, 2, Len(done))
      rootBounds == computeBoundsFromCenters(rootPlaced, rootComponentIds, 80)
      placedCenters ==
        IF options.includeOtherComponents
        THEN PackFrom(componentCenters, 1, rootBounds, options,
                      [cursorX |-> rootBounds.maxX + Px(options.componentGap),
                       cursorY |-> rootBounds.minY,
                       columnWidth |-> 0],
                      rootPlaced)
        ELSE rootPlaced
      crossings == done[1].crossings
                     + (IF options.includeOtherComponents
                        THEN SumCrossings(componentCenters, 1) ELSE 0)
  IN [positions |-> [id \in DOMAIN placedCenters |-> ToTopLeft(placedCenters[id])],
      crossings |-> crossings]

\* the end of computeAutoLayoutPositions and the rest of autoLayoutFromNode:
\* the positions are written to the store unless there are none
\* variant: a node without a position in the result is put at the origin
MergePositionsOrOrigin(nodeList, positions) ==
  [k \in 1..Len(nodeList) |->
     [nodeList[k] EXCEPT !.position =
        IF nodeList[k].id \in DOMAIN positions
        THEN positions[nodeList[k].id]
        ELSE [x |-> 0, y |-> 0]]]

\* nodes.map: the node with the position of the result, or the node itself
MergePositions(nodeList, positions) ==
  [k \in 1..Len(nodeList) |->
     IF nodeList[k].id \in DOMAIN positions
     THEN [nodeList[k] EXCEPT !.position = positions[nodeList[k].id]]
     ELSE nodeList[k]]

ApplyLayout ==
  /\ pc = "compose"
  /\ LET r == PlaceLayouts(nodes, call.rootId, call.options, layouts)
     IN IF ~LayoutOk(r.positions)
        THEN /\ result' = CallResult(r)
             /\ UNCHANGED nodes
        ELSE /\ result' = CallResult(r)
             /\ nodes' = MergePositions(nodes, r.positions)
  /\ pc' = "done"
  /\ UNCHANGED <<edges, call, frame, eng, layouts, before, untouched>>

(***************************************************************************)
(* The graphs the store starts with and the arguments of the call.         *)
(***************************************************************************)
Edge(s, t) == [source |-> s, target |-> t]

\* ids in store order, edges in store order, the locked nodes
Graph(ids, edgeList, locked) == [ids |-> ids, edges |-> edgeList, locked |-> locked]

\* an id that names no node
MissingId == "zz"

GraphPool ==
  { \* the empty store
    Graph(<<>>, <<>>, {}),
    \* a single node
    Graph(<<"a">>, <<>>, {}),
    \* a root with two self-loops, an isolated node and a separate pair
    Graph(<<"a", "b", "c", "d">>,
          <<Edge("a", "a"), Edge("c", "d"), Edge("a", "a")>>, {"c"}),
    \* the path a-b-c-d, with a reversed edge, a duplicate and a dangling edge
    Graph(<<"a", "b", "c", "d">>,
          <<Edge("b", "a"), Edge("b", "c"), Edge("c", MissingId), Edge("c", "d"), Edge("b", "c")>>,
          {"b"}),
    \* two nodes under the root joined to the same two nodes: one crossing
    \* in every layered order
    Graph(<<"r", "a", "b", "c", "d">>,
          <<Edge("r", "a"), Edge("r", "b"), Edge("a", "c"), Edge("a", "d"),
            Edge("b", "c"), Edge("b", "d")>>, {"d"}),
    \* a star with two chords: one crossing in every radial attempt
    Graph(<<"r", "a", "b", "c", "d">>,
          <<Edge("r", "a"), Edge("r", "b"), Edge("r", "c"), Edge("r", "d"),
            Edge("a", "c"), Edge("b", "d")>>, {}),
    \* a tree whose barycenter order has a crossing that one swap removes
    Graph(<<"n2", "n4", "n0", "n1", "n6", "n5", "n3">>,
          <<Edge("n6", "n2"), Edge("n5", "n1"), Edge("n0", "n6"), Edge("n4", "n5"),
            Edge("n4", "n0"), Edge("n3", "n4")>>, {"n5"}),
    \* a pair and four more components: the packing starts a second column
    Graph(<<"a", "b", "c", "d", "e", "f", "g">>,
          <<Edge("a", "b"), Edge("f", "e"), Edge("g", "e")>>, {"c"}) }

\* the position a node is created at: distinct whole pixels
StartPosition(k) == [x |-> Px(37 * k - 90), y |-> Px(210 - 61 * k)]

StoreNodes(g) ==
  [k \in 1..Len(g.ids) |->
     [id |-> g.ids[k], position |-> StartPosition(k), locked |-> g.ids[k] \in g.locked]]

\* largest maxAttempts a call asks for
MaxAttemptsOpt == 2

\* ringSpacing and nodeSpacing of the default and of the "compact" preset
SpacingPairs == {<<140, 140>>, <<112, 108>>}

CallOptions ==
  {EmptyMap}
    \cup {[layoutStyle |-> st, includeOtherComponents |-> inc,
           ringSpacing |-> sp[1], nodeSpacing |-> sp[2], maxAttempts |-> ma] :
            st \in {"radial", "layered"}, inc \in BOOLEAN,
            sp \in SpacingPairs, ma \in 0..MaxAttemptsOpt}
    \cup {[layoutStyle |-> st, fixedNodeIds |-> <<f>>] :
            st \in {"radial", "layered"}, f \in {"a", "n6"}}

Init ==
  /\ \E g \in GraphPool :
       /\ nodes = StoreNodes(g)
       /\ edges = g.edges
  /\ pc = "idle"
  /\ call = [rootId |-> MissingId, options |-> DEFAULT_OPTIONS]
  /\ frame = NewFrame(0, <<>>, MissingId)
  /\ eng = NoEngine
  /\ layouts = <<>>
  /\ result = NoResult
  /\ before = nodes
  /\ selection = NoSelection
  /\ pathFocus = NoPathFocus
  /\ probe = NoProbe

Next ==
  \/ \E nodeId \in Range(nodeIdsInOrder) \cup {MissingId}, options \in CallOptions :
       AutoLayoutFromNode(nodeId, options)
  \/ RadialAttempt
  \/ LayeredAttempt
  \/ LocalSwap
  \/ SelectBest
  \/ ApplyLayout

Spec == Init /\ [][Next]_vars

(***************************************************************************)
(* Properties of a finished call.                                          *)
(***************************************************************************)
IdsOf(nodeList) == {nodeList[k].id : k \in 1..Len(nodeList)}

PositionIn(nodeList, id) ==
  (CHOOSE n \in Range(nodeList) : n.id = id).position

Returned == pc = "done" /\ result.returned

RootExists == call.rootId \in IdsOf(before)

\* the ids reachable from the root over edges taken in both directions,
\* by closure over the edges whose two endpoints are nodes
RECURSIVE Closure(_, _)
Closure(S, links) ==
  LET T == S \cup {l[2] : l \in {m \in links : m[1] \in S}}
  IN IF T = S THEN S ELSE Closure(T, links)

Links ==
  LET valid == {k \in 1..Len(edges) :
                  edges[k].source \in IdsOf(before) /\ edges[k].target \in IdsOf(before)}
  IN {<<edges[k].source, edges[k].target>> : k \in valid}
       \cup {<<edges[k].target, edges[k].source>> : k \in valid}

Reachable(rootId) == Closure({rootId}, Links)

\* C1: when the root exists, the position returned for the root is the
\* position it had before the call, in both styles and with or without the
\* other components (positions on the grid of 1/PointUnit pixel, where
\* adding and subtracting the center offset is exact).
C1_RootAnchored ==
  (Returned /\ RootExists) =>
    /\ call.rootId \in DOMAIN result.positions
    /\ result.positions[call.rootId] = PositionIn(before, call.rootId)
    /\ PositionIn(nodes, call.rootId) = PositionIn(before, call.rootId)

C1_Witness ==
  /\ Returned /\ result.ok
  /\ call.options.layoutStyle = "layered"
  /\ call.options.includeOtherComponents
  /\ Len(layouts) > 1
  /\ Cardinality(Reachable(call.rootId)) > 2
  /\ \E k \in 1..Len(nodes) : nodes[k].position # before[k].position

\* C2: after autoLayoutFromNode, every locked node and every node named in
\* fixedNodeIds has the position it had before the call.
C2_FixedNodesStay ==
  Returned =>
    \A k \in 1..Len(before) :
      (before[k].locked \/ before[k].id \in Range(call.options.fixedNodeIds))
        => nodes[k].position = before[k].position

\* C3: when the root exists, the keys of the returned positions are the
\* nodes reachable from the root (includeOtherComponents false) or all
\* the nodes (includeOtherComponents true).
C3_KeySet ==
  (Returned /\ RootExists) =>
    DOMAIN result.positions =
      IF call.options.includeOtherComponents
      THEN IdsOf(before)
      ELSE Reachable(call.rootId)

C3_Witness ==
  /\ Returned /\ RootExists
  /\ ~call.options.includeOtherComponents
  /\ Cardinality(DOMAIN result.positions) > 1
  /\ DOMAIN result.positions # IdsOf(before)
  /\ \E k \in 1..Len(edges) :
       edges[k].target = call.rootId /\ edges[k].source \in DOMAIN result.positions

\* C4: no two distinct nodes of the result have rectangles of the default
\* size (120 by 50) that intersect, whatever the style and the spacings.
C4_NoOverlap ==
  Returned =>
    \A a, b \in DOMAIN result.positions :
      a # b =>
        ~ /\ Abs(result.positions[a].x - result.positions[b].x)
               < Px(2 * NODE_CENTER_OFFSET.x)
          /\ Abs(result.positions[a].y - result.positions[b].y)
               < Px(2 * NODE_CENTER_OFFSET.y)

\* C6: when no node has the root id, the call returns no position, zero
\* crossings and ok false, and the store keeps its nodes.
C6_MissingRoot ==
  (Returned /\ ~RootExists) =>
    /\ DOMAIN result.positions = {}
    /\ result.crossings = 0
    /\ ~result.ok
    /\ nodes = before

C6_Witness ==
  /\ Returned /\ ~RootExists
  /\ Len(before) > 1
  /\ Len(edges) > 0

\* the root has no neighbour other than itself
IsolatedRoot ==
  /\ RootExists
  /\ \A k \in 1..Len(edges) :
       ( /\ edges[k].source \in IdsOf(before)
         /\ edges[k].target \in IdsOf(before)
         /\ call.rootId \in {edges[k].source, edges[k].target} )
         => edges[k].source = edges[k].target

\* C7: for a root without neighbour other than itself and without the
\* other components, the result is the root alone at its position with
\* zero crossings, after a single attempt, and the radial engine builds
\* no wedge.
C7_IsolatedRoot ==
  (Returned /\ IsolatedRoot /\ ~call.options.includeOtherComponents) =>
    /\ DOMAIN result.positions = {call.rootId}
    /\ result.positions[call.rootId] = PositionIn(before, call.rootId)
    /\ result.crossings = 0
    /\ Len(layouts) = 1 /\ Len(layouts[1].tried) = 1
    /\ call.options.layoutStyle # "layered" => DOMAIN eng.wedges = {}

C7_Witness ==
  /\ Returned /\ IsolatedRoot /\ ~call.options.includeOtherComponents
  /\ call.options.layoutStyle # "layered"
  /\ call.options.maxAttempts > 1
  /\ Len(before) > 1
  /\ \E k \in 1..Len(edges) :
       edges[k].source = call.rootId /\ edges[k].target = call.rootId

(***************************************************************************)
(* Properties of the attempts.                                             *)
(***************************************************************************)
\* the crossings of the layout an attempt holds, counted over all pairs
FullCrossings(e) ==
  IF Len(e.componentEdges) > 1
  THEN countEdgeCrossings(e.centers, e.componentEdges, Range(frame.componentIds))
  ELSE 0

\* C8: in the layered local search a swap trial never raises the crossing
\* count of the layout: the order changes only with a strictly lower count,
\* and the count the engine holds is at most the full count of the
\* barycenter order.
C8_LocalSearchDescends ==
  [][pc = "swap" =>
       /\ FullCrossings(eng') <= FullCrossings(eng)
       /\ eng'.crossings <= eng.crossings
       /\ eng'.crossings <= eng.baryCrossings
       /\ eng'.orderedLevels # eng.orderedLevels => eng'.crossings < eng.crossings
       /\ eng'.orderedLevels = eng.orderedLevels =>
            (eng'.centers = eng.centers /\ eng'.crossings = eng.crossings)]_vars

C8_Witness ==
  /\ pc = "select"
  /\ call.options.layoutStyle = "layered"
  /\ eng.swaps > 1
  /\ eng.crossings < eng.baryCrossings
  /\ FullCrossings(eng) = eng.crossings

\* the attempt of the running call's style with the given seed
AttemptOf(componentIds, centerId, seed) ==
  IF call.options.layoutStyle = "layered"
  THEN computeLayeredCentersForComponent(componentIds, centerId, adjacency, orderIndex,
                                         edges, call.options, seed)
  ELSE computeRadialCentersForComponent(componentIds, centerId, adjacency, orderIndex,
                                        edges, call.options, seed)

\* the first attempt of the log with the lowest count
FirstLowest(tried) ==
  CHOOSE j \in 1..Len(tried) :
    /\ \A i \in 1..Len(tried) : tried[j].crossings <= tried[i].crossings
    /\ \A i \in 1..(j - 1) : tried[i].crossings > tried[j].crossings

BestOfAttempts(layout) ==
  LET tried == layout.tried
      n == Len(tried)
      attempts == IF call.options.maxAttempts > 1 THEN call.options.maxAttempts ELSE 1
  IN /\ n \in 1..attempts
     /\ \A j \in 1..n : tried[j] = AttemptOf(layout.ids, layout.centerId, j - 1)
     /\ \A j \in 1..(n - 1) : tried[j].crossings # 0
     /\ IF tried[n].crossings = 0
        THEN layout.crossings = 0 /\ layout.centers = tried[n].centers
        ELSE /\ n = attempts
             /\ layout.crossings = tried[FirstLowest(tried)].crossings
             /\ layout.centers = tried[FirstLowest(tried)].centers

\* C9: computeBestCentersForComponent runs the engine with the seeds 0, 1,
\* ... in order, at most max(1, maxAttempts) times, returns at once the
\* first attempt without crossing, and otherwise the attempt of the lowest
\* seed among those with the fewest crossings.
C9_BestOfSeeds ==
  pc = "compose" => \A k \in 1..Len(layouts) : BestOfAttempts(layouts[k])

C9_Witness ==
  /\ pc = "compose"
  /\ \E k \in 1..Len(layouts) :
       /\ Len(layouts[k].tried) > 1
       /\ layouts[k].crossings > 0
       /\ layouts[k].tried[1].centers # layouts[k].tried[2].centers
       /\ layouts[k].tried[1].crossings = layouts[k].tried[2].crossings

(***************************************************************************)
(* The layered engine on the tree of nine nodes: a root, two children,     *)
(* three children under each of them; every listing order of each level.   *)
(***************************************************************************)
TreeChildren == {"a", "b"}

TreeGrandchildren == {"a1", "a2", "a3", "b1", "b2", "b3"}

TreeParent ==
  [id \in TreeChildren \cup TreeGrandchildren |->
     IF id \in TreeChildren THEN "r"
     ELSE IF id \in {"a1", "a2", "a3"} THEN "a" ELSE "b"]

\* the sequences that list every element of S once
Listings(S) ==
  {p \in [1..Cardinality(S) -> S] : \A i, j \in 1..Cardinality(S) : p[i] = p[j] => i = j}

\* the edges parent -> child in the order of ids
EdgesDown(ids) == [k \in 1..Len(ids) |-> Edge(TreeParent[ids[k]], ids[k])]

\* the edges child -> parent in the opposite order
EdgesUp(ids) ==
  [k \in 1..Len(ids) |-> Edge(ids[Len(ids) + 1 - k], TreeParent[ids[Len(ids) + 1 - k]])]

\* the stores holding the tree: the levels listed top-down, bottom-up, or
\* mixed, with the edges listed to match
TreeStores ==
  UNION {
    { Graph(<<"r">> \o ch \o gc, EdgesDown(ch \o gc), {}),
      Graph(gc \o ch \o <<"r">>, EdgesUp(ch \o gc), {}),
      Graph(SubSeq(gc, 1, 3) \o SubSeq(ch, 2, 2) \o SubSeq(gc, 4, 5) \o <<"r">>
              \o SubSeq(gc, 6, 6) \o SubSeq(ch, 1, 1),
            EdgesDown(gc \o ch), {}) } :
    ch \in Listings(TreeChildren), gc \in Listings(TreeGrandchildren) }

TreeCallOptions ==
  { [layoutStyle |-> "layered"],
    [layoutStyle |-> "layered", ringSpacing |-> 112, nodeSpacing |-> 108,
     maxAttempts |-> MaxAttemptsOpt] }

InitTree ==
  /\ \E g \in TreeStores :
       /\ nodes = StoreNodes(g)
       /\ edges = g.edges
  /\ pc = "idle"
  /\ call = [rootId |-> MissingId, options |-> DEFAULT_OPTIONS]
  /\ frame = NewFrame(0, <<>>, MissingId)
  /\ eng = NoEngine
  /\ layouts = <<>>
  /\ result = NoResult
  /\ before = nodes
  /\ selection = NoSelection
  /\ pathFocus = NoPathFocus
  /\ probe = NoProbe

NextTree ==
  \/ \E options \in TreeCallOptions : AutoLayoutFromNode("r", options)
  \/ LayeredAttempt
  \/ SelectBest
  \/ ApplyLayout

SpecTree == InitTree /\ [][NextTree]_vars

\* the store holds the tree and the layered engine has run from its root
TreeAttempted ==
  /\ pc \in {"swap", "select", "compose", "done"}
  /\ call.rootId = "r"
  /\ call.options.layoutStyle = "layered"
  /\ IdsOf(nodes) = {"r"} \cup TreeChildren \cup TreeGrandchildren
  /\ Len(nodes) = 9
  /\ Links = {<<id, TreeParent[id]>> : id \in DOMAIN TreeParent}
               \cup {<<TreeParent[id], id>> : id \in DOMAIN TreeParent}

\* C10: on the tree of nine nodes the layered engine builds the levels of
\* sizes 1, 2 and 6 and the barycenter order has no crossing, so that no
\* swap is tried, in whatever order the nodes and edges are listed.
C10_TreeNoCrossing ==
  TreeAttempted =>
    /\ DOMAIN eng.orderedLevels = 0..2
    /\ eng.orderedLevels[0] = <<"r">>
    /\ Range(eng.orderedLevels[1]) = TreeChildren /\ Len(eng.orderedLevels[1]) = 2
    /\ Range(eng.orderedLevels[2]) = TreeGrandchildren /\ Len(eng.orderedLevels[2]) = 6
    /\ eng.baryCrossings = 0
    /\ eng.crossings = 0
    /\ eng.swaps = 0
    /\ eng.done

C10_Witness ==
  /\ TreeAttempted
  /\ pc = "select"
  /\ nodes[1].id = "b2" /\ nodes[2].id = "a3" /\ nodes[3].id = "b1"
  /\ nodes[9].id = "b"
  /\ edges[1] = Edge("b", "b2")
  /\ Len(eng.componentEdges) = 8

(***************************************************************************)
(* computeAutoLayoutPositions as a function of its arguments, for the      *)
(* properties that relate two inputs.                                      *)
(***************************************************************************)
\* const v = value; Op(v): the value is computed once
Bind(value, Op(_)) == CHOOSE y \in {Op(v) : v \in {value}} : TRUE

\* computeFn of the frame's seed
AttemptWith(fr, adj, order, edgeList, options) ==
  IF options.layoutStyle = "layered"
  THEN computeLayeredCentersForComponent(fr.componentIds, fr.centerId, adj, order,
                                         edgeList, options, fr.seed)
  ELSE computeRadialCentersForComponent(fr.componentIds, fr.centerId, adj, order,
                                        edgeList, options, fr.seed)

AttemptResult(fr, r, options) == AfterAttempt(fr, r.centers, r.crossings, options)

\* the loop over seeds of computeBestCentersForComponent from the frame fr
RECURSIVE BestFrom(_, _, _, _, _)
BestStep(fr, a, adj, order, edgeList, options) ==
  IF a.returned
  THEN [ids |-> fr.componentIds, centerId |-> fr.centerId,
        centers |-> a.out.centers, crossings |-> a.out.crossings,
        tried |-> a.frame.tried]
  ELSE BestFrom(a.frame, adj, order, edgeList, options)

BestFrom(fr, adj, order, edgeList, options) ==
  Bind(Bind(AttemptWith(fr, adj, order, edgeList, options),
            LAMBDA r : AttemptResult(fr, r, options)),
       LAMBDA a : BestStep(fr, a, adj, order, edgeList, options))

computeBestCentersForComponent(componentIds, centerId, adj, order, edgeList, options) ==
  BestFrom(NewFrame(0, componentIds, centerId), adj, order, edgeList, options)

\* the layouts of the components given, the root's component first
LayoutsOf(components, adj, order, edgeList, rootId, merged) ==
  [k \in 1..Len(components) |->
     computeBestCentersForComponent(
       components[k],
       IF k = 1 THEN rootId ELSE chooseComponentCenterId(components[k], adj, order),
       adj, order, edgeList, merged)]

\* otherComponents, when they are asked for
OtherComponentsOf(ids, adj, rootId, merged) ==
  IF merged.includeOtherComponents
  THEN SelectSeq(computeConnectedComponents(ids, adj), LAMBDA c : rootId \notin Range(c))
  ELSE <<>>

\* computeAutoLayoutPositions after mergedOptions, nodeIdsInOrder and adjacency
LayoutWith(nodeList, edgeList, rootId, merged, ids, adj) ==
  IF \/ FindNode(nodeList, rootId) = 0
     \/ Len(FilterIn(ids, computeComponentIdSetFromRoot(rootId, adj))) = 0
  THEN EmptyLayout
  ELSE Bind(LayoutsOf(<<FilterIn(ids, computeComponentIdSetFromRoot(rootId, adj))>>
                        \o OtherComponentsOf(ids, adj, rootId, merged),
                      adj, OrderIndexOf(ids), edgeList, rootId, merged),
            LAMBDA done : PlaceLayouts(nodeList, rootId, merged, done))

computeAutoLayoutPositions(nodeList, edgeList, rootId, options) ==
  LayoutWith(nodeList, edgeList, rootId, MergeOptions(DEFAULT_OPTIONS, options),
             NodeIdsOf(nodeList),
             buildUndirectedAdjacency(Range(NodeIdsOf(nodeList)), edgeList))

\* the call followed step by step computes the value of the function
StepsComputeFunction ==
  (pc = "done" /\ result.returned) =>
    LET r == computeAutoLayoutPositions(before, edges, call.rootId, call.options)
    IN r.positions = result.positions /\ r.crossings = result.crossings

(***************************************************************************)
(* computeAutoLayoutPositions applied to an edges list and to the same     *)
(* list with one edge added or turned round.                               *)
(***************************************************************************)
\* edgeList with e put after its first k edges
InsertAt(edgeList, k, e) ==
  SubSeq(edgeList, 1, k) \o <<e>> \o SubSeq(edgeList, k + 1, Len(edgeList))

EdgeCallOptions ==
  {[layoutStyle |-> st, includeOtherComponents |-> inc, maxAttempts |-> MaxAttemptsOpt] :
     st \in {"radial", "layered"}, inc \in BOOLEAN}

\* the edges with a self-loop or a second copy of an edge added at an end,
\* with an edge to or from no node added anywhere, with an edge turned round
Alterations ==
  {[kind |-> "self-loop", edges |-> InsertAt(edges, Len(edges), Edge(id, id))] :
     id \in Range(nodeIdsInOrder)}
  \cup {[kind |-> "duplicate", edges |-> InsertAt(edges, k, edges[j])] :
          j \in 1..Len(edges), k \in {0, Len(edges)}}
  \cup {[kind |-> "dangling", edges |-> InsertAt(edges, k, e)] :
          k \in {0, Len(edges) \div 2, Len(edges)},
          e \in {Edge(nodeIdsInOrder[i], MissingId) : i \in {1} \cap DOMAIN nodeIdsInOrder}
                  \cup {Edge(MissingId, nodeIdsInOrder[i]) :
                          i \in {Len(nodeIdsInOrder)} \cap DOMAIN nodeIdsInOrder}
                  \cup {Edge(MissingId, "yy")}}
  \cup {[kind |-> "reversed",
         edges |-> [edges EXCEPT ![j] = Edge(edges[j].target, edges[j].source)]] :
          j \in 1..Len(edges)}

\* the function applied to the store's edges (base) and to altered ones (out)
ProbeLayout ==
  /\ probe.fn = "none"
  /\ \E rootId \in Range(nodeIdsInOrder), options \in EdgeCallOptions, alt \in Alterations :
       \E value \in {[which \in {"base", "out"} |->
                        computeAutoLayoutPositions(
                          nodes, IF which = "base" THEN edges ELSE alt.edges,
                          rootId, options)]} :
          probe' = [fn |-> "computeAutoLayoutPositions",
                    kind |-> alt.kind,
                    rootId |-> rootId,
                    options |-> options,
                    edges |-> edges,
                    altered |-> alt.edges,
                    base |-> value["base"],
                    out |-> value["out"]]
  /\ UNCHANGED <<nodes, edges, pc, call, frame, eng, layouts, result, before,
                 selection, pathFocus>>

NextEdges == ProbeLayout

SpecEdges == Init /\ [][NextEdges]_vars

Probed(kind) == probe.fn = "computeAutoLayoutPositions" /\ probe.kind = kind

SameLayout == probe.out = probe.base

SameAdjacency ==
  buildUndirectedAdjacency(IdsOf(nodes), probe.altered)
    = buildUndirectedAdjacency(IdsOf(nodes), probe.edges)

\* C11: a self-loop or a second copy of an edge of the list, added to the
\* edges, changes neither the positions nor the crossings returned.
C11_SelfLoopDuplicateIgnored ==
  (Probed("self-loop") \/ Probed("duplicate")) => SameLayout

\* C12: an edge with an endpoint that is no node, added anywhere in the
\* edges, changes neither the positions nor the crossings returned, and
\* enters no adjacency list and no list of component edges.
C12_DanglingEdgeDropped ==
  Probed("dangling") =>
    /\ SameAdjacency
    /\ EdgesWithin(probe.altered, IdsOf(nodes)) = EdgesWithin(probe.edges, IdsOf(nodes))
    /\ SameLayout

C12_Witness ==
  /\ Probed("dangling")
  /\ probe.base.crossings > 0
  /\ Cardinality(DOMAIN probe.base.positions) > 3
  /\ \E i \in 2..(Len(probe.altered) - 1) :
       /\ probe.altered[i].source = MissingId
       /\ probe.altered[i].target \in IdsOf(nodes)

\* C13: an edge (s, t) replaced by (t, s) at its place in the edges leaves
\* the adjacency lists, the positions and the crossings unchanged.
C13_EdgeDirectionIgnored ==
  Probed("reversed") => (SameAdjacency /\ SameLayout)

C13_Witness ==
  /\ Probed("reversed")
  /\ probe.altered # probe.edges
  /\ probe.options.layoutStyle = "layered"
  /\ probe.base.crossings > 0
  /\ Cardinality(DOMAIN probe.base.positions) > 3

(***************************************************************************)
(* What a call of autoLayoutFromNode changes in the store.                 *)
(***************************************************************************)
\* C14: no step of a call changes the edges, the number, order, ids or
\* locked flags of the nodes; a position changes only in the step that
\* returns ok, and only for an id among the keys of the result; a call that
\* returns ok = false leaves the nodes as they were.
C14_OnlyPositionsChange ==
  [][/\ edges' = edges
     /\ Len(nodes') = Len(nodes)
     /\ \A k \in 1..Len(nodes) :
          /\ nodes'[k].id = nodes[k].id
          /\ nodes'[k].locked = nodes[k].locked
          /\ nodes'[k].position # nodes[k].position =>
               /\ pc' = "done"
               /\ result'.ok
               /\ nodes[k].id \in DOMAIN result'.positions
               /\ nodes'[k].position = result'.positions[nodes[k].id]
     /\ (pc' = "done" /\ ~result'.ok) => nodes' = before]_vars

C14_Witness ==
  /\ pc = "done"
  /\ result.ok
  /\ nodes # before
  /\ edges # <<>>
  /\ \E k \in 1..Len(nodes) :
       /\ nodes[k].id \notin DOMAIN result.positions
       /\ nodes[k] = before[k]
  /\ \E k \in 1..Len(nodes) :
       /\ nodes[k].locked
       /\ nodes[k].position # before[k].position

(***************************************************************************)
(* Import and export: importData and exportData of graphStore.ts, and the  *)
(* importData and exportData of createPersistenceSlice.  An edge is        *)
(* [id, source, target, label, data], data a record [relation, label];    *)
(* Absent stands for undefined, NoData for data that are undefined.        *)
(***************************************************************************)
Absent == "undefined"

NoData == [relation |-> Absent, label |-> Absent]

MaxImport == 3

ImportedNode(id) == [id |-> id, locked |-> FALSE, position |-> [x |-> 0, y |-> 0]]

ImportedEdge(id, s, t, label, data) ==
  [id |-> id, source |-> s, target |-> t, label |-> label, data |-> data]

\* normalizeEdgeData: the data are kept when they hold a relation
normalizeEdgeData(data) == IF data.relation = Absent THEN NoData ELSE data

\* edgeData?.label
DataLabel(data) == data.label

\* graphStore.ts importData: every node and every edge of the file is
\* stored; of an edge the id, the endpoints and the label
importData(data) ==
  [nodes |-> [k \in 1..Len(data.nodes) |-> data.nodes[k]],
   edges |-> [k \in 1..Len(data.edges) |->
                ImportedEdge(data.edges[k].id, data.edges[k].source,
                             data.edges[k].target, data.edges[k].label, NoData)]]

\* graphStore.ts exportData: of an edge the id, the endpoints and the label
exportData(nodeList, edgeList) ==
  [nodes |-> nodeList,
   edges |-> [k \in 1..Len(edgeList) |->
                ImportedEdge(edgeList[k].id, edgeList[k].source,
                             edgeList[k].target, edgeList[k].label, NoData)]]

\* createPersistenceSlice.importData, data.nodes.forEach
RECURSIVE NormalizedNodes(_, _, _)
NormalizedNodes(nodeList, k, kept) ==
  IF k > Len(nodeList) THEN kept
  ELSE IF nodeList[k].id = "" \/ nodeList[k].id \in {kept[j].id : j \in 1..Len(kept)}
    THEN NormalizedNodes(nodeList, k + 1, kept)
    ELSE NormalizedNodes(nodeList, k + 1, Append(kept, nodeList[k]))

\* `${edgeId}__${suffix}`
Renamed(edgeId, suffix) == edgeId \o "__" \o ToString(suffix)

\* while (seenEdgeIds.has(`${edgeId}__${suffix}`)) suffix += 1
RECURSIVE UnusedSuffix(_, _, _)
UnusedSuffix(edgeId, seenEdgeIds, suffix) ==
  IF Renamed(edgeId, suffix) \in seenEdgeIds
  THEN UnusedSuffix(edgeId, seenEdgeIds, suffix + 1)
  ELSE suffix

FreshEdgeId(edgeId, seenEdgeIds) ==
  IF edgeId \in seenEdgeIds
  THEN Renamed(edgeId, UnusedSuffix(edgeId, seenEdgeIds, 1))
  ELSE edgeId

\* createPersistenceSlice.importData, data.edges.forEach
RECURSIVE NormalizedEdges(_, _, _, _, _)
NormalizedEdges(edgeList, k, validNodeIdSet, seenEdgeIds, kept) ==
  IF k > Len(edgeList) THEN kept
  ELSE LET edge == edgeList[k]
       IN IF edge.id = "" \/ edge.source \notin validNodeIdSet
                          \/ edge.target \notin validNodeIdSet
          THEN NormalizedEdges(edgeList, k + 1, validNodeIdSet, seenEdgeIds, kept)
          ELSE LET edgeId == FreshEdgeId(edge.id, seenEdgeIds)
                   edgeData == normalizeEdgeData(edge.data)
                   edgeLabel == IF edge.label # Absent THEN edge.label
                                ELSE DataLabel(edgeData)
               IN NormalizedEdges(edgeList, k + 1, validNodeIdSet,
                                  seenEdgeIds \cup {edgeId},
                                  Append(kept, ImportedEdge(edgeId, edge.source, edge.target,
                                                            edgeLabel, edgeData)))

\* createPersistenceSlice.importData
sliceImportData(data) ==
  LET normalizedNodes == NormalizedNodes(data.nodes, 1, <<>>)
  IN [nodes |-> normalizedNodes,
      edges |-> NormalizedEdges(data.edges, 1,
                                {normalizedNodes[j].id : j \in 1..Len(normalizedNodes)},
                                {}, <<>>)]

\* createPersistenceSlice.exportData
sliceExportData(nodeList, edgeList) ==
  [nodes |-> nodeList,
   edges |-> [k \in 1..Len(edgeList) |->
                LET edgeData == normalizeEdgeData(edgeList[k].data)
                IN ImportedEdge(edgeList[k].id, edgeList[k].source, edgeList[k].target,
                                IF edgeList[k].label # Absent THEN edgeList[k].label
                                ELSE DataLabel(edgeData),
                                edgeData)]]

\* the sequences over S of at most n elements
SeqsUpTo(S, n) == UNION {[1..k -> S] : k \in 0..n}

\* the files read: nodes n1, n2 and a node without id; edges with a
\* repeated id, with an id of the renamed form, without id, to no node
ImportFiles ==
  {[nodes |-> ns, edges |-> es] :
     ns \in SeqsUpTo({ImportedNode("n1"), ImportedNode("n2"), ImportedNode("")}, MaxImport),
     es \in SeqsUpTo({ImportedEdge("e1", "n1", "n2", "A", [relation |-> "custom", label |-> "A"]),
                      ImportedEdge("e1", "n1", "n2", "B", [relation |-> "related", label |-> "B"]),
                      ImportedEdge("", "n1", "n2", "none", NoData),
                      ImportedEdge("e1__1", "n2", "n1", Absent, [relation |-> "custom", label |-> "C"]),
                      ImportedEdge("e2", "n1", "n9", "D", [relation |-> Absent, label |-> "D"])},
                     MaxImport)}

\* the store before a file is read
InitImport ==
  /\ nodes = <<>>
  /\ edges = <<>>
  /\ pc = "idle"
  /\ call = [rootId |-> MissingId, options |-> DEFAULT_OPTIONS]
  /\ frame = NewFrame(0, <<>>, MissingId)
  /\ eng = NoEngine
  /\ layouts = <<>>
  /\ result = NoResult
  /\ before = nodes
  /\ selection = NoSelection
  /\ pathFocus = NoPathFocus
  /\ probe = NoProbe

\* useGraphStore.getState().importData(data), then exportData()
ImportData(data) ==
  /\ probe.fn = "none"
  /\ \E stored \in {importData(data)} :
       /\ nodes' = stored.nodes
       /\ edges' = stored.edges
       /\ probe' = [fn |-> "importData", data |-> data,
                    exported |-> exportData(stored.nodes, stored.edges)]
  /\ selection' = NoSelection
  /\ pathFocus' = NoPathFocus
  /\ UNCHANGED <<pc, call, frame, eng, layouts, result, before>>

\* the importData and exportData of createPersistenceSlice on the same store
SliceImportData(data) ==
  /\ probe.fn = "none"
  /\ \E stored \in {sliceImportData(data)} :
       /\ nodes' = stored.nodes
       /\ edges' = stored.edges
       /\ probe' = [fn |-> "createPersistenceSlice.importData", data |-> data,
                    exported |-> sliceExportData(stored.nodes, stored.edges)]
  /\ selection' = NoSelection
  /\ pathFocus' = NoPathFocus
  /\ UNCHANGED <<pc, call, frame, eng, layouts, result, before>>

NextImport ==
  \/ \E data \in ImportFiles : ImportData(data)
  \/ \E data \in ImportFiles : SliceImportData(data)

SpecImport == InitImport /\ [][NextImport]_vars

\* the edges of the file that have an id and both endpoints among its nodes
\* with an id
ImportableEdges(data) ==
  SelectSeq(data.edges,
            LAMBDA e : /\ e.id # ""
                       /\ e.source \in {data.nodes[j].id : j \in 1..Len(data.nodes)} \ {""}
                       /\ e.target \in {data.nodes[j].id : j \in 1..Len(data.nodes)} \ {""})

\* the ids of the nodes of the file at their first occurrence
FirstNodeIds(data) ==
  SelectSeq([k \in 1..Len(data.nodes) |->
               IF \E j \in 1..(k - 1) : data.nodes[j].id = data.nodes[k].id
               THEN "" ELSE data.nodes[k].id],
            LAMBDA id : id # "")

\* the id given to the k-th importable edge: its own, or id__j with the
\* least j >= 1 not used by an earlier stored edge
IsStoredId(stored, kept, k) ==
  LET earlier == {stored[j].id : j \in 1..(k - 1)}
  IN IF kept[k].id \notin earlier
     THEN stored[k].id = kept[k].id
     ELSE \E j \in 1..Len(kept) :
            /\ stored[k].id = Renamed(kept[k].id, j)
            /\ stored[k].id \notin earlier
            /\ \A i \in 1..(j - 1) : Renamed(kept[k].id, i) \in earlier

ImportNormalized ==
  LET kept == ImportableEdges(probe.data)
  IN /\ \A i, j \in 1..Len(nodes) : nodes[i].id = nodes[j].id => i = j
     /\ [k \in 1..Len(nodes) |-> nodes[k].id] = FirstNodeIds(probe.data)
     /\ \A k \in 1..Len(edges) :
          /\ edges[k].id # ""
          /\ edges[k].source \in {nodes[j].id : j \in 1..Len(nodes)}
          /\ edges[k].target \in {nodes[j].id : j \in 1..Len(nodes)}
     /\ \A i, j \in 1..Len(edges) : edges[i].id = edges[j].id => i = j
     /\ Len(edges) = Len(kept)
     /\ \A k \in 1..Len(edges) : IsStoredId(edges, kept, k)
     /\ Len(probe.exported.edges) = Len(kept)
     /\ \A k \in 1..Len(kept) :
          /\ probe.exported.edges[k].label =
               (IF kept[k].label # Absent THEN kept[k].label
                ELSE DataLabel(normalizeEdgeData(kept[k].data)))
          /\ probe.exported.edges[k].data = normalizeEdgeData(kept[k].data)

\* C15: after importData the store holds no two nodes with one id (the
\* first of them is kept), every stored edge has a non-empty id and both
\* endpoints among the stored nodes, the edge ids are distinct (a repeated id
\* becomes id__k with the least unused k >= 1), and the export that follows
\* has the relation and the label of every edge.
C15_ImportNormalizes ==
  probe.fn \in {"importData", "createPersistenceSlice.importData"} => ImportNormalized

\* the same of createPersistenceSlice alone
SliceImportNormalizes ==
  probe.fn = "createPersistenceSlice.importData" => ImportNormalized

(***************************************************************************)
(* Path focus: focusShortestPathBetweenSelectedNodes of graphStore.ts and  *)
(* of createPathFocusSlice.  An edge of the store is [id, source, target]. *)
(***************************************************************************)
MaxFocusEdges == 4

NoPath == [found |-> FALSE, pathNodeIds |-> <<>>, pathEdgeIds |-> <<>>]

\* buildAdjacency(directed): a list of {nodeId, edgeId} for every node
RECURSIVE PathAdjacencyFrom(_, _, _, _)
PathAdjacencyFrom(edgeList, directed, k, map) ==
  IF k > Len(edgeList) THEN map
  ELSE LET edge == edgeList[k]
           m1 == IF edge.source \in DOMAIN map
                 THEN [map EXCEPT ![edge.source] =
                         Append(@, [nodeId |-> edge.target, edgeId |-> edge.id])]
                 ELSE map
           m2 == IF ~directed /\ edge.target \in DOMAIN m1
                 THEN [m1 EXCEPT ![edge.target] =
                         Append(@, [nodeId |-> edge.source, edgeId |-> edge.id])]
                 ELSE m1
       IN PathAdjacencyFrom(edgeList, directed, k + 1, m2)

buildAdjacency(nodeList, edgeList, directed) ==
  PathAdjacencyFrom(edgeList, directed, 1,
                    [id \in {nodeList[k].id : k \in 1..Len(nodeList)} |-> <<>>])

\* nextList.forEach: an unvisited neighbour is marked, given its
\* predecessor and queued; visited is the start and the ids with a predecessor
RECURSIVE VisitNext(_, _, _, _)
VisitNext(nextList, k, current, search) ==
  IF k > Len(nextList) THEN search
  ELSE IF nextList[k].nodeId \in search.visited
    THEN VisitNext(nextList, k + 1, current, search)
    ELSE VisitNext(nextList, k + 1, current,
                   [visited |-> search.visited \cup {nextList[k].nodeId},
                    prev |-> [id \in DOMAIN search.prev \cup {nextList[k].nodeId} |->
                                IF id = nextList[k].nodeId
                                THEN [nodeId |-> current, edgeId |-> nextList[k].edgeId]
                                ELSE search.prev[id]],
                    queue |-> Append(search.queue, nextList[k].nodeId)])

\* while (head < queue.length)
RECURSIVE SearchQueue(_, _, _, _)
SearchQueue(map, toId, head, search) ==
  IF head > Len(search.queue) THEN search
  ELSE LET current == search.queue[head]
       IN IF current = toId THEN search
          ELSE SearchQueue(map, toId, head + 1,
                           VisitNext(IF current \in DOMAIN map THEN map[current] ELSE <<>>,
                                     1, current, search))

\* while (cursor !== fromId), and the two reverse()
RECURSIVE WalkBack(_, _, _, _, _)
WalkBack(prev, fromId, cursor, pathNodeIds, pathEdgeIds) ==
  IF cursor = fromId \/ cursor \notin DOMAIN prev
  THEN [found |-> TRUE, pathNodeIds |-> pathNodeIds, pathEdgeIds |-> pathEdgeIds]
  ELSE WalkBack(prev, fromId, prev[cursor].nodeId,
                <<prev[cursor].nodeId>> \o pathNodeIds,
                <<prev[cursor].edgeId>> \o pathEdgeIds)

findPath(nodeList, edgeList, directed, fromId, toId) ==
  LET search == SearchQueue(buildAdjacency(nodeList, edgeList, directed), toId, 1,
                            [visited |-> {fromId}, prev |-> << >>, queue |-> <<fromId>>])
  IN IF toId \notin search.visited THEN NoPath
     ELSE WalkBack(search.prev, fromId, toId, <<toId>>, <<>>)

\* nodes.filter((node) => Boolean(node.selected)), else the single selection
SelectedNodes(nodeList, sel) ==
  LET marked == SelectSeq(nodeList, LAMBDA n : n.id \in sel.ids)
  IN IF Len(marked) = 0 /\ sel.selectedNodeId # ""
     THEN SelectSeq(nodeList, LAMBDA n : n.id = sel.selectedNodeId)
     ELSE marked

\* graphStore.ts: findPath(true), then findPath(false), from the first
\* selected node to the second
StorePathChoice(nodeList, edgeList, startId, targetId) ==
  LET directedPath == findPath(nodeList, edgeList, TRUE, startId, targetId)
  IN IF directedPath.found THEN [mode |-> "directed", path |-> directedPath]
     ELSE [mode |-> "undirected",
           path |-> findPath(nodeList, edgeList, FALSE, startId, targetId)]

\* createPathFocusSlice: the directed path forward, the directed path
\* backward, the shorter of both, then the undirected path
SlicePathChoice(nodeList, edgeList, firstSelectedId, secondSelectedId) ==
  LET directedForwardPath == findPath(nodeList, edgeList, TRUE, firstSelectedId, secondSelectedId)
      directedBackwardPath == findPath(nodeList, edgeList, TRUE, secondSelectedId, firstSelectedId)
  IN IF directedForwardPath.found /\ directedBackwardPath.found
     THEN [mode |-> "directed",
           path |-> IF Len(directedForwardPath.pathEdgeIds) <= Len(directedBackwardPath.pathEdgeIds)
                    THEN directedForwardPath ELSE directedBackwardPath]
     ELSE IF directedForwardPath.found THEN [mode |-> "directed", path |-> directedForwardPath]
     ELSE IF directedBackwardPath.found THEN [mode |-> "directed", path |-> directedBackwardPath]
     ELSE [mode |-> "undirected",
           path |-> findPath(nodeList, edgeList, FALSE, firstSelectedId, secondSelectedId)]

\* the call's effect on the path focus and its result, given the choice made
FocusOutcome(fn, selectedNodes, choice) ==
  IF Len(selectedNodes) # 2
  THEN /\ probe' = [fn |-> fn, ok |-> FALSE, selected |-> selectedNodes, was |-> pathFocus]
       /\ UNCHANGED pathFocus
  ELSE IF ~choice.path.found \/ Len(choice.path.pathEdgeIds) = 0
  THEN /\ probe' = [fn |-> fn, ok |-> FALSE, selected |-> selectedNodes, was |-> pathFocus]
       /\ UNCHANGED pathFocus
  ELSE /\ probe' = [fn |-> fn, ok |-> TRUE, selected |-> selectedNodes, was |-> pathFocus]
       /\ pathFocus' = [nodeIds |-> choice.path.pathNodeIds,
                        edgeIds |-> choice.path.pathEdgeIds,
                        mode |-> choice.mode]

NoChoice == [mode |-> "directed", path |-> NoPath]

\* useGraphStore.getState().focusShortestPathBetweenSelectedNodes()
FocusShortestPath ==
  /\ probe.fn = "none"
  /\ \E selectedNodes \in {SelectedNodes(nodes, selection)} :
       \E choice \in {IF Len(selectedNodes) # 2 THEN NoChoice
                      ELSE StorePathChoice(nodes, edges, selectedNodes[1].id,
                                           selectedNodes[2].id)} :
          FocusOutcome("focusShortestPathBetweenSelectedNodes", selectedNodes, choice)
  /\ UNCHANGED <<nodes, edges, pc, call, frame, eng, layouts, result, before, selection>>

\* the focusShortestPathBetweenSelectedNodes of createPathFocusSlice
SliceFocusShortestPath ==
  /\ probe.fn = "none"
  /\ \E selectedNodes \in {SelectedNodes(nodes, selection)} :
       \E choice \in {IF Len(selectedNodes) # 2 THEN NoChoice
                      ELSE SlicePathChoice(nodes, edges, selectedNodes[1].id,
                                           selectedNodes[2].id)} :
          FocusOutcome("createPathFocusSlice.focusShortestPathBetweenSelectedNodes",
                       selectedNodes, choice)
  /\ UNCHANGED <<nodes, edges, pc, call, frame, eng, layouts, result, before, selection>>

FocusEdge(s, t) == [id |-> s \o t, source |-> s, target |-> t]

FocusCandidates ==
  <<FocusEdge("A", "B"), FocusEdge("B", "A"), FocusEdge("A", "C"), FocusEdge("C", "B"),
    FocusEdge("B", "C"), FocusEdge("B", "D"), FocusEdge("D", "A"), FocusEdge("C", "D")>>

\* the candidates at the indices of S, in their order
RECURSIVE Picked(_, _)
Picked(S, k) ==
  IF k > Len(FocusCandidates) THEN <<>>
  ELSE IF k \in S THEN <<FocusCandidates[k]>> \o Picked(S, k + 1)
  ELSE Picked(S, k + 1)

FocusNodeLists ==
  {<<ImportedNode("A"), ImportedNode("B")>>,
   <<ImportedNode("A"), ImportedNode("B"), ImportedNode("C"), ImportedNode("D")>>}

\* an earlier focus still shown
StaleFocus == [nodeIds |-> <<"A", "B">>, edgeIds |-> <<"AB">>, mode |-> "directed"]

InitFocus ==
  /\ \E nodeList \in FocusNodeLists :
       \E S \in {T \in SUBSET (1..Len(FocusCandidates)) : Cardinality(T) <= MaxFocusEdges} :
          /\ nodes = nodeList
          /\ edges = SelectSeq(Picked(S, 1),
                               LAMBDA e : /\ e.source \in {nodeList[k].id : k \in 1..Len(nodeList)}
                                          /\ e.target \in {nodeList[k].id : k \in 1..Len(nodeList)})
          /\ \E ids \in SUBSET {nodeList[k].id : k \in 1..Len(nodeList)} :
               /\ Cardinality(ids) <= 3
               /\ selection \in {[ids |-> ids, selectedNodeId |-> ""],
                                 [ids |-> ids, selectedNodeId |-> "A"]}
  /\ pathFocus \in {NoPathFocus, StaleFocus}
  /\ pc = "idle"
  /\ call = [rootId |-> MissingId, options |-> DEFAULT_OPTIONS]
  /\ frame = NewFrame(0, <<>>, MissingId)
  /\ eng = NoEngine
  /\ layouts = <<>>
  /\ result = NoResult
  /\ before = nodes
  /\ probe = NoProbe

NextFocus ==
  \/ FocusShortestPath
  \/ SliceFocusShortestPath

SpecFocus == InitFocus /\ [][NextFocus]_vars

\* the number of edges of a shortest directed path from a to b, found by
\* growing the set of reached ids; more than the number of edges if none
RECURSIVE StepsTo(_, _, _, _, _)
StepsTo(edgeList, directed, seen, b, d) ==
  IF b \in seen THEN d
  ELSE LET more == {e.target : e \in {x \in Range(edgeList) : x.source \in seen}}
                     \cup (IF directed THEN {}
                           ELSE {e.source : e \in {x \in Range(edgeList) : x.target \in seen}})
       IN IF more \subseteq seen THEN Len(edgeList) + 1
          ELSE StepsTo(edgeList, directed, seen \cup more, b, d + 1)

Distance(edgeList, directed, a, b) == StepsTo(edgeList, directed, {a}, b, 0)

EdgeOfId(edgeList, id) == CHOOSE e \in Range(edgeList) : e.id = id

\* the ids name edges that lead from a to b, each from where the last ended
IsDirectedPath(edgeList, ids, a, b) ==
  /\ Len(ids) > 0
  /\ \A k \in 1..Len(ids) : \E e \in Range(edgeList) : e.id = ids[k]
  /\ EdgeOfId(edgeList, ids[1]).source = a
  /\ EdgeOfId(edgeList, ids[Len(ids)]).target = b
  /\ \A k \in 1..(Len(ids) - 1) :
       EdgeOfId(edgeList, ids[k]).target = EdgeOfId(edgeList, ids[k + 1]).source

FocusCalled ==
  /\ probe.fn \in {"focusShortestPathBetweenSelectedNodes",
                   "createPathFocusSlice.focusShortestPathBetweenSelectedNodes"}
  /\ Len(probe.selected) = 2

FocusAsClaimed ==
  LET a == probe.selected[1].id
      b == probe.selected[2].id
      forward == Distance(edges, TRUE, a, b)
      backward == Distance(edges, TRUE, b, a)
      none == Len(edges) + 1
  IN IF forward < none \/ backward < none
     THEN /\ probe.ok
          /\ pathFocus.mode = "directed"
          /\ IF forward <= backward
             THEN /\ Len(pathFocus.edgeIds) = forward
                  /\ IsDirectedPath(edges, pathFocus.edgeIds, a, b)
             ELSE /\ Len(pathFocus.edgeIds) = backward
                  /\ IsDirectedPath(edges, pathFocus.edgeIds, b, a)
     ELSE IF Distance(edges, FALSE, a, b) < none
     THEN /\ probe.ok
          /\ pathFocus.mode = "undirected"
          /\ Len(pathFocus.edgeIds) = Distance(edges, FALSE, a, b)
     ELSE /\ ~probe.ok
          /\ pathFocus = probe.was

\* C16: with exactly two selected nodes, a directed path in either direction
\* gives ok, the mode "directed" and the edge ids of a shortest directed path
\* (the shorter direction, the forward one on a tie); the mode "undirected"
\* only without a directed path either way; nodes not connected give
\* ok = false and the path focus as it was.
C16_DirectedEitherWay == FocusCalled => FocusAsClaimed

\* the same of createPathFocusSlice alone
SliceFocusAsClaimed ==
  (FocusCalled /\ probe.fn = "createPathFocusSlice.focusShortestPathBetweenSelectedNodes")
    => FocusAsClaimed

(***************************************************************************)
(* compressCentersIfPossible on its own: centers on a few points, ids some *)
(* of which have no center, a minimum scale inside and outside [0.1, 1].   *)
(***************************************************************************)
MaxCompressIds == 3

CompressPoints ==
  {[x |-> Px(0), y |-> Px(0)], [x |-> Px(100), y |-> Px(0)], [x |-> Px(200), y |-> Px(0)],
   [x |-> Px(130), y |-> Px(70)], [x |-> Px(-300), y |-> Px(40)], [x |-> Px(500), y |-> Px(500)]}

CompressIdPool == <<"a", "b", "c", "d", "e">>

\* numerators over ScaleDen: 0, 0.05, 0.1, 0.35, 0.5, 1, 1.5
CompressMinScales == {0, 1024, 2048, 7168, 10240, 20480, 30720}

CompressPaddings == {0, 12}

\* one bisection step: (1 - safeMinScale) / 2^10
BisectResolution(minScale) == (ScaleDen - SafeMinScale(minScale)) \div 1024

ProbeCompress ==
  /\ probe.fn = "none"
  /\ \E n \in 1..MaxCompressIds, minScale \in CompressMinScales, padding \in CompressPaddings :
       \E centers \in [{CompressIdPool[k] : k \in 1..n} -> CompressPoints],
          ids \in {SubSeq(CompressIdPool, 1, n), SubSeq(CompressIdPool, 2, n + 1)} :
          \E out \in {compressCentersIfPossible(centers, ids, minScale, padding)} :
             probe' = [fn |-> "compressCentersIfPossible",
                       centers |-> centers,
                       ids |-> ids,
                       minScale |-> minScale,
                       padding |-> padding,
                       out |-> out]
  /\ UNCHANGED <<nodes, edges, pc, call, frame, eng, layouts, result, before,
                 selection, pathFocus>>

NextCompress == ProbeCompress

SpecCompress == InitImport /\ [][NextCompress]_vars

Compressed == probe.fn = "compressCentersIfPossible"

OverlapsAt(scale) == hasAnyNodeOverlap(probe.centers, probe.ids, scale, probe.padding)

\* C17: the scale returned lies in [max(0.1, min(1, minScale)), 1]; the
\* centers returned are those of the listed ids, each the given center times
\* that scale (to the rounding of a point), so none is farther from (0,0)
\* than it was.
C17_OnlyShrinks ==
  Compressed =>
    /\ probe.out.scale >= Max2(ScaleDen \div 10, Min2(ScaleDen, probe.minScale))
    /\ probe.out.scale <= ScaleDen
    /\ DOMAIN probe.out.centers = Range(probe.ids) \cap DOMAIN probe.centers
    /\ \A id \in DOMAIN probe.out.centers :
         /\ 2 * Abs(probe.out.centers[id].x * ScaleDen - probe.centers[id].x * probe.out.scale)
              <= ScaleDen
         /\ 2 * Abs(probe.out.centers[id].y * ScaleDen - probe.centers[id].y * probe.out.scale)
              <= ScaleDen
         /\ Abs(probe.out.centers[id].x) <= Abs(probe.centers[id].x)
         /\ Abs(probe.out.centers[id].y) <= Abs(probe.centers[id].y)

C17_Witness ==
  /\ Compressed
  /\ probe.minScale < ScaleDen \div 10
  /\ probe.out.scale > ScaleDen \div 10
  /\ probe.out.scale < ScaleDen
  /\ Cardinality(DOMAIN probe.out.centers) = 2
  /\ Len(probe.ids) = 3
  /\ \E id \in DOMAIN probe.out.centers : probe.out.centers[id] # probe.centers[id]

\* C18 as stated: when the layout overlaps at the minimum scale, no scale
\* of [minimum, 1] above the one returned by more than a bisection step is
\* overlap-free.
C18_LargestOverlapFree ==
  (Compressed /\ OverlapsAt(SafeMinScale(probe.minScale))) =>
    \A scale \in {ScaleDen} \cup {1024 * k : k \in 2..20} :
       scale > probe.out.scale + BisectResolution(probe.minScale) => OverlapsAt(scale)

\* C18, amended: when the layout overlaps at the minimum scale, the scale
\* returned is the smallest overlap-free one of [minimum, 1] to a bisection
\* step: the layout overlaps one step below it and at every smaller scale,
\* and it is overlap-free at the scale returned unless it overlaps even at
\* scale 1, which is then returned untested; the centers returned are the
\* given centers times that scale.
C18_SmallestOverlapFree ==
  (Compressed /\ OverlapsAt(SafeMinScale(probe.minScale))) =>
    /\ probe.out.scale - BisectResolution(probe.minScale) >= SafeMinScale(probe.minScale)
    /\ OverlapsAt(probe.out.scale - BisectResolution(probe.minScale))
    /\ \A scale \in {1024 * k : k \in 2..20} :
         scale <= probe.out.scale - BisectResolution(probe.minScale) => OverlapsAt(scale)
    /\ OverlapsAt(ScaleDen) => probe.out.scale = ScaleDen
    /\ ~OverlapsAt(ScaleDen) => ~OverlapsAt(probe.out.scale)
    /\ probe.out.centers = ScaleCenters(probe.centers, probe.ids, probe.out.scale)

C18_Witness ==
  /\ Compressed
  /\ OverlapsAt(SafeMinScale(probe.minScale))
  /\ ~OverlapsAt(ScaleDen)
  /\ probe.out.scale > SafeMinScale(probe.minScale) + BisectResolution(probe.minScale)
  /\ probe.out.scale < ScaleDen - BisectResolution(probe.minScale)
  /\ Cardinality(DOMAIN probe.out.centers) = 3

(***************************************************************************)
(* countEdgeCrossings and countCrossingsInvolvingMarkedEdgeIndices on      *)
(* their own: the nodes of a component on the points of a small grid, one  *)
(* node outside the component, several edge lists.                         *)
(***************************************************************************)
MaxCrossEdges == 4

CrossGrid == {[x |-> x, y |-> y] : x \in 0..2, y \in 0..2}

CrossComponent == {"a", "b", "c", "d", "e"}

\* edge lists: a pair of opposite edges and the two diagonals first; an
\* edge listed twice; a self-loop and an edge that leaves the component
CrossEdgeLists ==
  {<<Edge("a", "b"), Edge("c", "d"), Edge("e", "c"), Edge("b", "d"), Edge("d", "a")>>,
   <<Edge("a", "c"), Edge("b", "d"), Edge("c", "a"), Edge("b", "c"), Edge("a", "d")>>,
   <<Edge("a", "b"), Edge("f", "c"), Edge("c", "d"), Edge("b", "b"), Edge("d", "e"),
     Edge("a", "c")>>}

ProbeCrossings ==
  /\ probe.fn = "none"
  /\ \E base \in CrossEdgeLists, n \in 2..MaxCrossEdges :
       \E a \in CrossGrid, b \in CrossGrid,
          c \in {[x |-> 0, y |-> 2], [x |-> 1, y |-> 0], [x |-> 1, y |-> 1],
                 [x |-> 2, y |-> 0], [x |-> 2, y |-> 2]},
          d \in {[x |-> 0, y |-> 0], [x |-> 2, y |-> 1], [x |-> 2, y |-> 2]} :
          \E centers \in {[id \in CrossComponent \cup {"f"} |->
                             IF id = "a" THEN a ELSE IF id = "b" THEN b
                             ELSE IF id = "c" THEN c ELSE IF id = "d" THEN d
                             ELSE IF id = "e" THEN [x |-> 1, y |-> 1]
                             ELSE [x |-> 1, y |-> 2]]} :
             probe' = [fn |-> "countEdgeCrossings",
                       centers |-> centers,
                       edges |-> SubSeq(base, 1, n),
                       nodeIdSet |-> CrossComponent,
                       crossings |-> countEdgeCrossings(centers, SubSeq(base, 1, n),
                                                        CrossComponent)]
  /\ UNCHANGED <<nodes, edges, pc, call, frame, eng, layouts, result, before,
                 selection, pathFocus>>

NextCrossings == ProbeCrossings

SpecCrossings == InitImport /\ [][NextCrossings]_vars

Counted == probe.fn = "countEdgeCrossings"

\* (b - a) x (c - a)
Turn(a, b, c) == (b.x - a.x) * (c.y - a.y) - (b.y - a.y) * (c.x - a.x)

\* the ends of each segment lie strictly on different sides of the other
Straddle(p1, q1, p2, q2) ==
  /\ Turn(p1, q1, p2) * Turn(p1, q1, q2) < 0
  /\ Turn(p2, q2, p1) * Turn(p2, q2, q1) < 0

\* c lies on the segment from a to b
OnSegment(a, b, c) ==
  /\ Turn(a, b, c) = 0
  /\ Min2(a.x, b.x) <= c.x /\ c.x <= Max2(a.x, b.x)
  /\ Min2(a.y, b.y) <= c.y /\ c.y <= Max2(a.y, b.y)

\* the segments touch at an end of one of them, or lie on one line
TouchOrCollinear(p1, q1, p2, q2) ==
  \/ OnSegment(p1, q1, p2) \/ OnSegment(p1, q1, q2)
  \/ OnSegment(p2, q2, p1) \/ OnSegment(p2, q2, q1)
  \/ (Turn(p1, q1, p2) = 0 /\ Turn(p1, q1, q2) = 0)

\* the two-element sets of places of the list whose edges lie in the
\* component, share no endpoint and straddle each other
CrossingPairs(edgeList, centers, idSet) ==
  {pair \in SUBSET (1..Len(edgeList)) :
     /\ Cardinality(pair) = 2
     /\ \A k \in pair : edgeList[k].source \in idSet /\ edgeList[k].target \in idSet
     /\ \E i \in pair, j \in pair :
          /\ i < j
          /\ {edgeList[i].source, edgeList[i].target}
               \cap {edgeList[j].source, edgeList[j].target} = {}
          /\ Straddle(centers[edgeList[i].source], centers[edgeList[i].target],
                      centers[edgeList[j].source], centers[edgeList[j].target])}

\* the list in the order given by the permutation f of its places
Reordered(edgeList, f) == [k \in 1..Len(edgeList) |-> edgeList[f[k]]]

\* C19: countEdgeCrossings is the number of unordered pairs of edges of the
\* component that share no endpoint and strictly straddle each other; a pair
\* that touches at an end or lies on one line is none of them; the count is
\* the same for every order of the edge list.
C19_CountsProperCrossings ==
  Counted =>
    /\ probe.crossings
         = Cardinality(CrossingPairs(probe.edges, probe.centers, probe.nodeIdSet))
    /\ \A pair \in CrossingPairs(probe.edges, probe.centers, probe.nodeIdSet) :
         \A i \in pair, j \in pair :
            i < j =>
              ~TouchOrCollinear(probe.centers[probe.edges[i].source],
                                probe.centers[probe.edges[i].target],
                                probe.centers[probe.edges[j].source],
                                probe.centers[probe.edges[j].target])
    /\ \A f \in Permutations(1..Len(probe.edges)) :
         countEdgeCrossings(probe.centers, Reordered(probe.edges, f), probe.nodeIdSet)
           = probe.crossings

C19_Witness ==
  /\ Counted
  /\ probe.crossings = 1
  /\ Len(probe.edges) = MaxCrossEdges
  /\ \E i, j \in 1..Len(probe.edges) :
       /\ i < j
       /\ ~edgesShareEndpoint(probe.edges[i], probe.edges[j])
       /\ OnSegment(probe.centers[probe.edges[i].source], probe.centers[probe.edges[i].target],
                    probe.centers[probe.edges[j].source])
       /\ probe.centers[probe.edges[j].source] # probe.centers[probe.edges[i].source]
       /\ probe.centers[probe.edges[j].source] # probe.centers[probe.edges[i].target]

\* the places of the set A in rising order
RECURSIVE Rising(_, _, _)
Rising(A, k, n) ==
  IF k > n THEN <<>>
  ELSE IF k \in A THEN <<k>> \o Rising(A, k + 1, n)
  ELSE Rising(A, k + 1, n)

Reversed(s) == [k \in 1..Len(s) |-> s[Len(s) + 1 - k]]

ComponentEdgesProbed == EdgesWithin(probe.edges, probe.nodeIdSet)

\* the centers with those of u and v exchanged
Exchanged(centers, u, v) == [centers EXCEPT ![u] = centers[v], ![v] = centers[u]]

MarkedCount(centers, affected) ==
  countCrossingsInvolvingMarkedEdgeIndices(ComponentEdgesProbed, centers, affected,
                                           Range(affected))

\* C20: for every set A of places of the component edges, listed once each
\* in any order, countCrossingsInvolvingMarkedEdgeIndices is the number of
\* crossing pairs with an edge in A; and when two nodes exchange their
\* centers, the count over the edges at these nodes changes by as much as the
\* full count.
C20_MarkedCountExact ==
  Counted =>
    /\ \A A \in SUBSET (1..Len(ComponentEdgesProbed)) :
         \A affected \in {Rising(A, 1, Len(ComponentEdgesProbed)),
                          Reversed(Rising(A, 1, Len(ComponentEdgesProbed)))} :
            MarkedCount(probe.centers, affected)
              = Cardinality({pair \in CrossingPairs(ComponentEdgesProbed, probe.centers,
                                                   probe.nodeIdSet) :
                               pair \cap A # {}})
    /\ \A u \in probe.nodeIdSet \ {"e"}, v \in probe.nodeIdSet :
         u # v =>
           \A affected \in {AffectedIndices(ComponentEdgesProbed, u, v)} :
              MarkedCount(Exchanged(probe.centers, u, v), affected)
                  - MarkedCount(probe.centers, affected)
                = countEdgeCrossings(Exchanged(probe.centers, u, v), probe.edges,
                                     probe.nodeIdSet)
                    - probe.crossings

C20_Witness ==
  /\ Counted
  /\ probe.crossings = 1
  /\ Len(ComponentEdgesProbed) = MaxCrossEdges
  /\ \E u \in probe.nodeIdSet, v \in probe.nodeIdSet :
       /\ u # v
       /\ Len(AffectedIndices(ComponentEdgesProbed, u, v)) < Len(ComponentEdgesProbed)
       /\ Len(AffectedIndices(ComponentEdgesProbed, u, v)) > 1
       /\ MarkedCount(probe.centers, AffectedIndices(ComponentEdgesProbed, u, v)) = 1
       /\ MarkedCount(Exchanged(probe.centers, u, v),
                      AffectedIndices(ComponentEdgesProbed, u, v)) = 0

(***************************************************************************)
(* The layered local search on graphs of three levels: a root, its three    *)
(* children, and three grandchildren joined to any of the children.         *)
(***************************************************************************)
SearchChildren == <<"a", "b", "c">>

SearchGrandchildren == <<"d", "e", "f">>

\* the pairs child - grandchild in listing order
SearchPairs ==
  [k \in 1..9 |-> Edge(SearchChildren[((k - 1) \div 3) + 1], SearchGrandchildren[((k - 1) % 3) + 1])]

SearchPairKept(chosen, e) == \E k \in chosen : SearchPairs[k] = e

\* the stores: every choice of pairs that reaches each grandchild
SearchStores ==
  { Graph(<<"r">> \o SearchChildren \o SearchGrandchildren,
          <<Edge("r", "a"), Edge("r", "b"), Edge("r", "c")>>
            \o SelectSeq(SearchPairs, LAMBDA e : SearchPairKept(chosen, e)),
          {}) :
    chosen \in { c \in SUBSET (1..9) :
                   \A g \in 1..3 : \E k \in c : SearchPairs[k].target = SearchGrandchildren[g] } }

SearchCallOptions ==
  { [layoutStyle |-> "layered"],
    [layoutStyle |-> "layered", maxAttempts |-> MaxAttemptsOpt] }

InitSearch ==
  /\ \E g \in SearchStores :
       /\ nodes = StoreNodes(g)
       /\ edges = g.edges
  /\ pc = "idle"
  /\ call = [rootId |-> MissingId, options |-> DEFAULT_OPTIONS]
  /\ frame = NewFrame(0, <<>>, MissingId)
  /\ eng = NoEngine
  /\ layouts = <<>>
  /\ result = NoResult
  /\ before = nodes
  /\ selection = NoSelection
  /\ pathFocus = NoPathFocus
  /\ probe = NoProbe

NextSearch ==
  \/ \E options \in SearchCallOptions : AutoLayoutFromNode("r", options)
  \/ LayeredAttempt
  \/ LocalSwap
  \/ SelectBest
  \/ ApplyLayout

SpecSearch == InitSearch /\ [][NextSearch]_vars

(***************************************************************************)
(* The budget of the layered local search.                                 *)
(***************************************************************************)
LayeredSearching == pc = "swap" /\ call.options.layoutStyle = "layered"

RECURSIVE HopSets(_, _, _)
HopSets(seen, frontier, n) ==
  IF n = 0 THEN <<>>
  ELSE Bind({l[2] : l \in {m \in Links : m[1] \in frontier}} \ seen,
            LAMBDA next : <<frontier>> \o HopSets(seen \cup next, next, n - 1))

\* from the center of the component being laid out (the root, for the
\* root's component)
HopsFromRoot == HopSets({frame.centerId}, {frame.centerId}, Len(frame.componentIds) + 1)

\* every level d lists the ids at d hops of the root, each once, and level
\* 0 lists the root alone
LevelsArePermutations(levels, hops) ==
  /\ DOMAIN levels = {d \in 0..(Len(hops) - 1) : hops[d + 1] # {}}
  /\ levels[0] = <<frame.centerId>>
  /\ \A d \in DOMAIN levels :
       /\ Range(levels[d]) = hops[d + 1]
       /\ Len(levels[d]) = Cardinality(hops[d + 1])

\* the node listed i-th (0-based) of count in level d sits at
\* x = ringSpacing * d * xScale, y = (i - (count - 1) / 2) * nodeSpacing * yScale,
\* and no two nodes of a level share a slot
CentersOnSlots(levels, centers) ==
  /\ DOMAIN centers = UNION {Range(levels[d]) : d \in DOMAIN levels}
  /\ \A d \in DOMAIN levels : \A k \in 1..Len(levels[d]) :
       LET c == centers[levels[d][k]]
       IN /\ c.x = PointUnit * call.options.ringSpacing * d * call.options.xScale
          /\ 2 * c.y = (2 * (k - 1) - (Len(levels[d]) - 1))
                         * PointUnit * call.options.nodeSpacing * call.options.yScale
  /\ \A d \in DOMAIN levels : \A k, l \in 1..Len(levels[d]) :
       k # l => centers[levels[d][k]].y # centers[levels[d][l]].y

\* the orders after the seed perturbation (k = 0) and after each of the
\* 2 * BarycenterIterations sweeps, forward and backward in turn
RECURSIVE SweepStages(_, _, _, _)
SweepStages(levels, k, maxDistance, distanceMap) ==
  IF k >= 2 * BarycenterIterations THEN <<levels>>
  ELSE Bind(IF k % 2 = 0
            THEN ForwardSweep(levels, 1, maxDistance, adjacency, distanceMap, orderIndex)
            ELSE BackwardSweep(levels, maxDistance - 1, adjacency, distanceMap, orderIndex),
            LAMBDA swept : <<levels>> \o SweepStages(swept, k + 1, maxDistance, distanceMap))

StagesOfAttempt ==
  Bind(DistanceBfs(frame.centerId, adjacency, Range(frame.componentIds)).distanceMap,
       LAMBDA distanceMap :
         Bind(InitialLevels(frame.componentIds, distanceMap, orderIndex, frame.seed),
              LAMBDA initial :
                SweepStages(initial, 0, MaxOf(DOMAIN initial), distanceMap)))

LayeredRunning ==
  /\ pc \in {"swap", "select"}
  /\ call.options.layoutStyle = "layered"

\* C22: while the layered engine runs on a component from its center, the
\* root for the root's component (positive spacings), each level is a
\* permutation of the ids at that distance of the center, level 0 is the
\* center alone, and the centers are the slots of the current order, one
\* node per slot; this is so after every swap trial,
\* kept or rolled back, and the orders after the seed perturbation and
\* after every barycenter sweep are such permutations too, the last of them
\* being the order the local search starts from.
C22_LevelsOnSlots ==
  LayeredRunning =>
    \E hops \in {HopsFromRoot} :
      /\ LevelsArePermutations(eng.orderedLevels, hops)
      /\ CentersOnSlots(eng.orderedLevels, eng.centers)
      /\ eng.swaps = 0 =>
           \E stages \in {StagesOfAttempt} :
             /\ Len(stages) = 2 * BarycenterIterations + 1
             /\ \A k \in 1..Len(stages) : LevelsArePermutations(stages[k], hops)
             /\ stages[Len(stages)] = eng.orderedLevels

\* a perturbed attempt whose sweeps reordered a level, after a swap that
\* was rolled back and one that was kept
C22_Witness ==
  /\ LayeredRunning
  /\ frame.centerId = call.rootId
  /\ frame.seed = 1
  /\ eng.swaps > eng.baryCrossings - eng.crossings
  /\ eng.crossings < eng.baryCrossings
  /\ \E d \in DOMAIN eng.orderedLevels : Len(eng.orderedLevels[d]) = 3
  /\ \E stages \in {StagesOfAttempt} : stages[1] # stages[Len(stages)]

(***************************************************************************)
(* The rings of the radial engine.                                         *)
(***************************************************************************)
RadialDone ==
  /\ pc = "select"
  /\ call.options.layoutStyle = "radial"
  /\ DOMAIN eng.radiusByGroupDepth # {}

\* squared distance of a center from the center of the component
Dist2(p) == p.x * p.x + p.y * p.y

\* the group (root child) of every id of the component
GroupsOfAttempt ==
  RadialTree(frame.componentIds, frame.centerId, orderIndex,
             DistanceBfs(frame.centerId, adjacency, Range(frame.componentIds))).groupOf

\* the depths of group g that hold a node
PopulatedDepths(g, groupOf, hops) ==
  {d \in 1..(Len(hops) - 1) : \E id \in hops[d + 1] : groupOf[id] = g}

\* C23: in every wedge of a radial attempt, a radius is set for exactly the
\* populated depths, and each is at least the radius of the populated depth
\* before it (0 before the first) plus max(ringSpacing, 2 * 25 + 28); the
\* centers before compaction and the centers returned after it both lie
\* strictly farther from the root at each deeper populated depth of a wedge;
\* from the end of a path of four nodes the four nodes lie at four strictly
\* growing distances, in the order of their depth, with 0 crossings.
C23_RingsGrow ==
  RadialDone =>
    \E hops \in {HopsFromRoot} : \E groupOf \in {GroupsOfAttempt} :
      /\ \A g \in DOMAIN eng.radiusByGroupDepth :
           LET radiusMap == eng.radiusByGroupDepth[g]
               depths == PopulatedDepths(g, groupOf, hops)
           IN /\ DOMAIN radiusMap = depths
              /\ \A d \in depths :
                   radiusMap[d] >=
                     (IF \E c \in depths : c < d
                      THEN radiusMap[CHOOSE c \in depths :
                                       c < d /\ \A b \in depths : b < d => b <= c]
                      ELSE 0)
                       + PointUnit * Max2(call.options.ringSpacing, 2 * 25 + 28)
              /\ \A c, d \in depths : \A u \in hops[c + 1], v \in hops[d + 1] :
                   (c < d /\ groupOf[u] = g /\ groupOf[v] = g) =>
                     /\ Dist2(eng.rawCenters[u]) < Dist2(eng.rawCenters[v])
                     /\ Dist2(eng.centers[u]) < Dist2(eng.centers[v])
      /\ (Len(hops) = 5 /\ \A d \in 1..4 : Cardinality(hops[d]) = 1) =>
           /\ \A c, d \in 1..4 : \A u \in hops[c], v \in hops[d] :
                c < d => Dist2(eng.centers[u]) < Dist2(eng.centers[v])
           /\ Dist2(eng.centers[frame.centerId]) = 0
           /\ eng.crossings = 0

\* the path a-b-c-d laid out from a, compacted
C23_PathWitness ==
  /\ RadialDone
  /\ frame.centerId = call.rootId
  /\ eng.scale < ScaleDen
  /\ \E hops \in {HopsFromRoot} :
       /\ Len(hops) = 5
       /\ \A d \in 1..4 : Cardinality(hops[d]) = 1
       /\ DOMAIN eng.radiusByGroupDepth[CHOOSE b \in hops[2] : TRUE] = {1, 2, 3}

(***************************************************************************)
(* computeComponentIdSetFromRoot as a function of its arguments.           *)
(***************************************************************************)
\* the edge list without its k-th edge (k = 0: the whole list)
WithoutEdge(edgeList, k) ==
  SelectSeq([j \in 1..Len(edgeList) |-> [at |-> j, edge |-> edgeList[j]]],
            LAMBDA e : e.at # k)

EdgesWithout(edgeList, k) ==
  [j \in 1..Len(WithoutEdge(edgeList, k)) |-> WithoutEdge(edgeList, k)[j].edge]

\* the function applied to a root, known or not, over the adjacency of the
\* store's edges or of all but one of them
ProbeComponent ==
  /\ probe.fn = "none"
  /\ \E rootId \in Range(nodeIdsInOrder) \cup {MissingId}, k \in 0..Len(edges) :
       \E kept \in {EdgesWithout(edges, k)} :
         probe' = [fn |-> "computeComponentIdSetFromRoot",
                   rootId |-> rootId,
                   edges |-> kept,
                   out |-> computeComponentIdSetFromRoot(
                             rootId, buildUndirectedAdjacency(Range(nodeIdsInOrder), kept))]
  /\ UNCHANGED <<nodes, edges, pc, call, frame, eng, layouts, result, before,
                 selection, pathFocus>>

NextComponent == ProbeComponent

SpecComponent == Init /\ [][NextComponent]_vars

\* both directions of the edges whose two ends are nodes of the store
LinksOf(edgeList) ==
  LET valid == {k \in 1..Len(edgeList) :
                  edgeList[k].source \in IdsOf(nodes) /\ edgeList[k].target \in IdsOf(nodes)}
  IN {<<edgeList[k].source, edgeList[k].target>> : k \in valid}
       \cup {<<edgeList[k].target, edgeList[k].source>> : k \in valid}

ComponentProbed == probe.fn = "computeComponentIdSetFromRoot"

ComponentOrRootAlone ==
  ComponentProbed =>
    probe.out = IF probe.rootId \in IdsOf(nodes)
                THEN Closure({probe.rootId}, LinksOf(probe.edges))
                ELSE {probe.rootId}

(***************************************************************************)
(* The column packing of the other components.                             *)
(***************************************************************************)
\* calls that lay out every component, with the default gap or none and
\* with a column limit above or below the height of the root's box, and
\* calls that lay out the root's component alone
PackCallOptions ==
  {[layoutStyle |-> st, includeOtherComponents |-> TRUE,
    componentGap |-> gap, columnMaxHeight |-> limit, maxAttempts |-> 1] :
     st \in {"radial", "layered"}, gap \in {0, 320}, limit \in {100, 1200}}
    \cup {[layoutStyle |-> st, maxAttempts |-> 1] : st \in {"radial", "layered"}}

NextPack ==
  \/ \E nodeId \in Range(nodeIdsInOrder), options \in PackCallOptions :
       AutoLayoutFromNode(nodeId, options)
  \/ RadialAttempt
  \/ LayeredAttempt
  \/ LocalSwap
  \/ SelectBest
  \/ ApplyLayout

\* the stores of the pool, and one with two components that each keep a
\* crossing in every layered order from the node the layout starts at
PackStores ==
  GraphPool \cup
    { Graph(<<"r", "a", "b", "c", "d", "s", "e", "f", "g", "h", "i">>,
            <<Edge("r", "a"), Edge("r", "b"), Edge("a", "c"), Edge("a", "d"),
              Edge("b", "c"), Edge("b", "d"),
              Edge("s", "e"), Edge("s", "f"), Edge("e", "g"), Edge("e", "h"),
              Edge("f", "g"), Edge("f", "h"), Edge("s", "i")>>, {}) }

InitPack ==
  /\ \E g \in PackStores :
       /\ nodes = StoreNodes(g)
       /\ edges = g.edges
  /\ pc = "idle"
  /\ call = [rootId |-> MissingId, options |-> DEFAULT_OPTIONS]
  /\ frame = NewFrame(0, <<>>, MissingId)
  /\ eng = NoEngine
  /\ layouts = <<>>
  /\ result = NoResult
  /\ before = nodes
  /\ selection = NoSelection
  /\ pathFocus = NoPathFocus
  /\ probe = NoProbe

SpecPack == InitPack /\ [][NextPack]_vars

Packed ==
  /\ pc = "done"
  /\ result.ok
  /\ call.options.includeOtherComponents
  /\ call.options.componentGap >= 0

SetMin(S) == CHOOSE v \in S : \A w \in S : v <= w

SetMax(S) == CHOOSE v \in S : \A w \in S : v >= w

\* the box of the 120 x 50 nodes of S in the returned drawing, padded by 80
PaddedBox(S) ==
  [minX |-> SetMin({result.positions[id].x : id \in S}) - PointUnit * 80,
   maxX |-> SetMax({result.positions[id].x : id \in S}) + PointUnit * (120 + 80),
   minY |-> SetMin({result.positions[id].y : id \in S}) - PointUnit * 80,
   maxY |-> SetMax({result.positions[id].y : id \in S}) + PointUnit * (50 + 80)]

BoxesOverlap(a, b) ==
  /\ a.minX < b.maxX /\ b.minX < a.maxX
  /\ a.minY < b.maxY /\ b.minY < a.maxY

\* the components of the store, and the place of each in discovery order
ComponentsOfStore == {Closure({id}, Links) : id \in IdsOf(before)}

FirstIndex(S) == SetMin({k \in 1..Len(nodeIdsInOrder) : nodeIdsInOrder[k] \in S})

\* the boxes of the other components in discovery order, the root's first
PackedBoxes ==
  LET rootComponent == Closure({call.rootId}, Links)
      others == ComponentsOfStore \ {rootComponent}
      RECURSIVE listed(_)
      listed(left) ==
        IF left = {} THEN <<>>
        ELSE LET next == CHOOSE c \in left : \A o \in left : FirstIndex(c) <= FirstIndex(o)
             IN <<PaddedBox(next)>> \o listed(left \ {next})
  IN <<PaddedBox(rootComponent)>> \o listed(others)

\* C25: with the other components included and a gap >= 0, the padded box
\* of every other component starts at x >= the right edge of the root's
\* padded box plus the gap; the first one starts at the top of the root's
\* box, each next one is put below the one before it at the distance of
\* the gap, in discovery order, unless it would pass the top of the root's
\* box plus max(columnMaxHeight, height of the root's box): then, and only
\* then, it starts a new column at the top, to the right of the widest box
\* of the column before plus the gap; no two padded boxes overlap.
C25_ColumnsPacked ==
  Packed =>
    \E boxes \in {PackedBoxes} :
      LET root == boxes[1]
          gap == PointUnit * call.options.componentGap
          limit == root.minY + Max2(PointUnit * call.options.columnMaxHeight,
                                    root.maxY - root.minY)
      IN /\ \A k \in 2..Len(boxes) : boxes[k].minX >= root.maxX + gap
         /\ Len(boxes) > 1 =>
              /\ boxes[2].minX = root.maxX + gap
              /\ boxes[2].minY = root.minY
         /\ \A k \in 3..Len(boxes) :
              IF boxes[k - 1].maxY + gap + (boxes[k].maxY - boxes[k].minY) > limit
              THEN /\ boxes[k].minY = root.minY
                   /\ boxes[k].minX =
                        SetMax({boxes[j].maxX : j \in {i \in 2..(k - 1) :
                                                        boxes[i].minX = boxes[k - 1].minX}})
                          + gap
              ELSE /\ boxes[k].minY = boxes[k - 1].maxY + gap
                   /\ boxes[k].minX = boxes[k - 1].minX
         /\ \A j, k \in 1..Len(boxes) : j # k => ~BoxesOverlap(boxes[j], boxes[k])

\* a packing in which one component lies under another at the distance
\* of the gap and a later one opens the second column
C25_Witness ==
  /\ Packed
  /\ \E boxes \in {PackedBoxes} :
       /\ Len(boxes) >= 4
       /\ \E k \in 3..Len(boxes) :
            /\ boxes[k].minY = boxes[k - 1].maxY + PointUnit * call.options.componentGap
            /\ boxes[k].minX = boxes[k - 1].minX
       /\ \E k \in 3..Len(boxes) :
            /\ boxes[k].minY = boxes[1].minY
            /\ boxes[k].minX > boxes[k - 1].minX

(***************************************************************************)
(* The crossing count that is returned.                                    *)
(***************************************************************************)
\* the centers of the returned positions
ReturnedCenters ==
  [id \in DOMAIN result.positions |->
     [x |-> result.positions[id].x + PointUnit * 60,
      y |-> result.positions[id].y + PointUnit * 25]]

LaidOut == pc = "done" /\ result.ok

\* C26: the count a layered attempt holds is, after every swap trial, kept
\* or rolled back, the count of countEdgeCrossings over all pairs of the
\* component's edges on the centers it holds; the count returned is a
\* natural number equal to countEdgeCrossings on the returned drawing: of
\* the root's component alone, or, with the other components (gap >= 0),
\* of the whole packed drawing, where it is the sum over the components.
C26_ReturnedCountIsRecount ==
  /\ LayeredRunning => eng.crossings = FullCrossings(eng)
  /\ LaidOut =>
       /\ result.crossings \in Nat
       /\ result.crossings
            = countEdgeCrossings(ReturnedCenters, edges, DOMAIN result.positions)
       /\ result.crossings
            = layouts[1].crossings
                + (IF call.options.includeOtherComponents
                   THEN SumCrossings(SubSeq(layouts, 2, Len(layouts)), 1) ELSE 0)

\* two components packed side by side, each with a crossing that the local
\* search could not remove
C26_Witness ==
  /\ LaidOut
  /\ call.options.includeOtherComponents
  /\ call.options.layoutStyle = "layered"
  /\ Len(layouts) = 2
  /\ layouts[1].crossings > 0
  /\ layouts[2].crossings > 0
  /\ result.crossings = layouts[1].crossings + layouts[2].crossings

(***************************************************************************)
(* hasAnyNodeOverlap as a function of its arguments.                       *)
(***************************************************************************)
\* most ids of one call
MaxOverlapIds == 3

\* centers on both sides of 0 and of the cell borders, some of them one
\* pixel inside and some exactly at the distance of two boxes that touch
OverlapPoints ==
  {[x |-> Px(0), y |-> Px(0)], [x |-> Px(139), y |-> Px(69)], [x |-> Px(140), y |-> Px(0)],
   [x |-> Px(-69), y |-> Px(-34)], [x |-> Px(-140), y |-> Px(70)], [x |-> Px(279), y |-> Px(0)]}

\* numerators over ScaleDen: 0.5 and 1
OverlapScales == {ScaleDen \div 2, ScaleDen}

OverlapPaddings == {0, 10}

ProbeOverlap ==
  /\ probe.fn = "none"
  /\ \E n \in 1..MaxOverlapIds, scale \in OverlapScales, padding \in OverlapPaddings :
       \E centers \in [{CompressIdPool[k] : k \in 1..n} -> OverlapPoints],
          ids \in Listings({CompressIdPool[k] : k \in 1..n}) :
            probe' = [fn |-> "hasAnyNodeOverlap",
                      centers |-> centers,
                      ids |-> ids,
                      scale |-> scale,
                      padding |-> padding,
                      out |-> hasAnyNodeOverlap(centers, ids, scale, padding)]
  /\ UNCHANGED <<nodes, edges, pc, call, frame, eng, layouts, result, before,
                 selection, pathFocus>>

NextOverlap == ProbeOverlap

SpecOverlap == InitImport /\ [][NextOverlap]_vars

OverlapProbed == probe.fn = "hasAnyNodeOverlap"

\* the boxes of a and b, scaled, overlap: the test over one pair, in units
\* of 1/(PointUnit * ScaleDen) pixel
PairOverlaps(a, b) ==
  /\ Abs(probe.centers[a].x * probe.scale - probe.centers[b].x * probe.scale)
       < 2 * (60 + probe.padding) * PointUnit * ScaleDen
  /\ Abs(probe.centers[a].y * probe.scale - probe.centers[b].y * probe.scale)
       < 2 * (25 + probe.padding) * PointUnit * ScaleDen

\* C27: hasAnyNodeOverlap is true exactly when two distinct listed nodes
\* lie, after scaling, at |dx| < 2 * (60 + padding) and |dy| < 2 * (25 +
\* padding), wherever the centers fall with respect to the cells and to 0
\* and in whatever order the ids are listed (each id listed once).
C27_GridIsAllPairs ==
  OverlapProbed =>
    (probe.out <=> \E a, b \in Range(probe.ids) : a # b /\ PairOverlaps(a, b))

\* three nodes listed so that the only overlapping pair is the first and
\* the last, with centers on both sides of 0 that share no cell corner
C27_Witness ==
  /\ OverlapProbed
  /\ probe.out
  /\ Len(probe.ids) = 3
  /\ PairOverlaps(probe.ids[1], probe.ids[3])
  /\ ~PairOverlaps(probe.ids[1], probe.ids[2])
  /\ ~PairOverlaps(probe.ids[2], probe.ids[3])
  /\ probe.centers[probe.ids[1]].x < 0
  /\ probe.centers[probe.ids[3]].x > 0
  /\ probe.ids[1] = "c"

(***************************************************************************)
(* computeAutoLayoutPositions applied again to the store it has laid out.  *)
(***************************************************************************)
AgainCallOptions ==
  EdgeCallOptions
    \cup {[layoutStyle |-> st, ringSpacing |-> 112, nodeSpacing |-> 108, maxAttempts |-> 1] :
            st \in {"radial", "layered"}}

\* the nodes with every node but the root put somewhere else
Scattered(nodeList, rootId) ==
  [k \in 1..Len(nodeList) |->
     IF nodeList[k].id = rootId THEN nodeList[k]
     ELSE [nodeList[k] EXCEPT !.position = [x |-> Px(7 * k), y |-> Px(-3 * k)]]]

\* One call of the function.  The first call is made on the store, and
\* the nodes with the positions of its result written back (nodes.map of
\* autoLayoutFromNode) are kept; the calls after it are made with the same
\* order, edges, rootId and options on the nodes written back and on the
\* store with all nodes but the root moved.
ProbeAgain ==
  /\ \/ probe.fn = "none"
     \/ probe.fn = "computeAutoLayoutPositions" /\ probe.kind = "first"
  /\ \E rootId \in IF probe.fn = "none" THEN Range(nodeIdsInOrder) ELSE {probe.rootId},
        options \in IF probe.fn = "none" THEN AgainCallOptions ELSE {probe.options} :
       \E value \in {[which \in IF probe.fn = "none" THEN {"first"}
                                ELSE {"second", "scattered"} |->
                        computeAutoLayoutPositions(
                          IF which = "first" THEN nodes
                          ELSE IF which = "second" THEN probe.written
                          ELSE Scattered(nodes, rootId),
                          edges, rootId, options)]} :
         probe' = IF probe.fn = "none"
                  THEN [fn |-> "computeAutoLayoutPositions",
                        kind |-> "first",
                        rootId |-> rootId,
                        options |-> options,
                        first |-> value["first"],
                        written |-> MergePositions(nodes, value["first"].positions)]
                  ELSE [fn |-> "computeAutoLayoutPositions again",
                        rootId |-> rootId,
                        options |-> options,
                        first |-> probe.first,
                        written |-> probe.written,
                        second |-> value["second"],
                        scattered |-> value["scattered"]]
  /\ UNCHANGED <<nodes, edges, pc, call, frame, eng, layouts, result, before,
                 selection, pathFocus>>

NextAgain == ProbeAgain

SpecAgain == Init /\ [][NextAgain]_vars

AgainProbed == probe.fn = "computeAutoLayoutPositions again"

\* C28: the layout depends on the positions of the nodes only through the
\* position of the root: with every other node moved the result is the
\* same, and with the result written back to the nodes a second call with
\* the same order, edges, rootId and options returns the same positions and
\* the same crossings.
C28_LayoutIsFixpoint ==
  AgainProbed =>
    /\ probe.second = probe.first
    /\ probe.scattered = probe.first

\* a second call on a store that the first call has changed, with
\* crossings left and other components packed
C28_Witness ==
  /\ AgainProbed
  /\ probe.written # nodes
  /\ probe.first.crossings > 0
  /\ probe.second.crossings = probe.first.crossings
  /\ Cardinality(DOMAIN probe.second.positions) > 4
  /\ "includeOtherComponents" \in DOMAIN probe.options
  /\ probe.options.includeOtherComponents

(***************************************************************************)
(* computeAutoLayoutPositions with and without the other components.       *)
(***************************************************************************)
IncludeCallOptions ==
  {[layoutStyle |-> st, maxAttempts |-> ma] :
     st \in {"radial", "layered"}, ma \in 1..MaxAttemptsOpt}

\* the function applied with includeOtherComponents off and on
ProbeInclude ==
  /\ probe.fn = "none"
  /\ \E rootId \in Range(nodeIdsInOrder), options \in IncludeCallOptions :
       \E value \in {[inc \in BOOLEAN |->
                        computeAutoLayoutPositions(
                          nodes, edges, rootId,
                          Extend(options, [includeOtherComponents |-> inc]))]} :
         probe' = [fn |-> "includeOtherComponents",
                   rootId |-> rootId,
                   options |-> options,
                   off |-> value[FALSE],
                   on |-> value[TRUE]]
  /\ UNCHANGED <<nodes, edges, pc, call, frame, eng, layouts, result, before,
                 selection, pathFocus>>

NextInclude == ProbeInclude

SpecInclude == InitPack /\ [][NextInclude]_vars

IncludeProbed == probe.fn = "includeOtherComponents"

\* the crossings among the edges of the nodes that only the call with the
\* other components places, counted on its drawing
CrossingsOfOthers ==
  countEdgeCrossings(
    [id \in DOMAIN probe.on.positions |->
       [x |-> probe.on.positions[id].x + PointUnit * 60,
        y |-> probe.on.positions[id].y + PointUnit * 25]],
    edges,
    DOMAIN probe.on.positions \ DOMAIN probe.off.positions)

\* C29: with includeOtherComponents on, every node of the root's component
\* gets the position it gets with the option off, and the crossings
\* returned are those returned with the option off plus the crossings of
\* the other components.
C29_RootComponentUndisturbed ==
  IncludeProbed =>
    /\ DOMAIN probe.off.positions = Closure({probe.rootId}, Links)
    /\ DOMAIN probe.on.positions = IdsOf(nodes)
    /\ \A id \in DOMAIN probe.off.positions :
         probe.on.positions[id] = probe.off.positions[id]
    /\ probe.on.crossings = probe.off.crossings + CrossingsOfOthers

\* a root's component with a crossing and another component with one
C29_Witness ==
  /\ IncludeProbed
  /\ probe.off.crossings > 0
  /\ probe.on.crossings > probe.off.crossings
  /\ Cardinality(DOMAIN probe.off.positions) > 1
  /\ Cardinality(DOMAIN probe.on.positions) > Cardinality(DOMAIN probe.off.positions) + 1

(***************************************************************************)
(* compressCentersIfPossible followed step by step.                        *)
(***************************************************************************)
StepIds == <<"a", "b", "c">>

StepPaddings == {0, 10}

\* variant: the halves are taken the other way round
BisectHalfSwapped(low, high, overlap) ==
  IF overlap
  THEN [low |-> low, high |-> (low + high) \div 2]
  ELSE [low |-> (low + high) \div 2, high |-> high]

\* if (overlap) low = mid; else high = mid;
BisectHalf(low, high, overlap) ==
  IF overlap
  THEN [low |-> (low + high) \div 2, high |-> high]
  ELSE [low |-> low, high |-> (low + high) \div 2]

\* the call up to the loop: the test at safeMinScale, and the return when
\* there is no overlap
CompressEnter ==
  /\ probe.fn = "none"
  /\ \E centers \in [Range(StepIds) -> CompressPoints],
        minScale \in CompressMinScales, padding \in StepPaddings :
       \E safeMinScale \in {SafeMinScale(minScale)} :
         \E overlap \in {hasAnyNodeOverlap(centers, StepIds, safeMinScale, padding)} :
           probe' = [fn |-> "compress",
                     centers |-> centers,
                     ids |-> StepIds,
                     minScale |-> minScale,
                     padding |-> padding,
                     low |-> safeMinScale,
                     high |-> IF overlap THEN ScaleDen ELSE safeMinScale,
                     iter |-> 0,
                     bisecting |-> overlap,
                     returned |-> ~overlap,
                     scale |-> IF overlap THEN 0 ELSE safeMinScale]
  /\ UNCHANGED <<nodes, edges, pc, call, frame, eng, layouts, result, before,
                 selection, pathFocus>>

\* one iteration of the loop, and the return after the tenth
CompressStep ==
  /\ probe.fn = "compress"
  /\ ~probe.returned
  /\ \E half \in {BisectHalf(probe.low, probe.high,
                             hasAnyNodeOverlap(probe.centers, probe.ids,
                                               (probe.low + probe.high) \div 2,
                                               probe.padding))} :
       probe' = [probe EXCEPT !.low = half.low,
                              !.high = half.high,
                              !.iter = @ + 1,
                              !.returned = (probe.iter + 1 >= 10),
                              !.scale = IF probe.iter + 1 >= 10 THEN half.high ELSE 0]
  /\ UNCHANGED <<nodes, edges, pc, call, frame, eng, layouts, result, before,
                 selection, pathFocus>>

NextSteps == CompressEnter \/ CompressStep

SpecSteps == InitImport /\ [][NextSteps]_vars

Stepping == probe.fn = "compress"

StepOverlapsAt(scale) ==
  hasAnyNodeOverlap(probe.centers, probe.ids, scale, probe.padding)

\* what holds of every call apart from the order of low and high: overlap
\* at a scale implies overlap at the smaller scales met, low overlaps, the
\* result is overlap-free exactly when the input is at scale 1, an input
\* that overlaps at scale 1 is returned at scale 1, a minimum scale without
\* overlap is returned at once, and the scale is that of the function
StepsAsClaimed ==
  /\ \A s, t \in {probe.low, probe.high, SafeMinScale(probe.minScale), ScaleDen} :
       (s <= t /\ StepOverlapsAt(t)) => StepOverlapsAt(s)
  /\ probe.bisecting => StepOverlapsAt(probe.low)
  /\ probe.returned =>
       /\ StepOverlapsAt(probe.scale) <=> StepOverlapsAt(ScaleDen)
       /\ StepOverlapsAt(ScaleDen) => probe.scale = ScaleDen
       /\ probe.scale
            = compressCentersIfPossible(probe.centers, probe.ids,
                                        probe.minScale, probe.padding).scale
  /\ ~StepOverlapsAt(SafeMinScale(probe.minScale)) =>
       /\ probe.returned
       /\ ~probe.bisecting
       /\ probe.iter = 0
       /\ probe.scale = SafeMinScale(probe.minScale)

====
